---- MODULE Spec2Model ----
(***************************************************************************)
(* Client-side Paillier voting: the big-integer layer (bigint-utils.js),   *)
(* the Paillier engine (paillier.js) and the zero-knowledge proof engine   *)
(* (zkp.js), as state machines over one engine instance, and the page      *)
(* that drives them (voting-system.js).                                    *)
(*                                                                         *)
(* Numbers are JavaScript BigInts (unbounded); the key width is scaled     *)
(* down so that every intermediate product stays below 2^31.               *)
(***************************************************************************)
EXTENDS Integers, Sequences, FiniteSets, TLC

\* ------------------------------------------------------------------ bounds

\* Bit length of each prime (the code uses keySize / 2 = 512).
HalfKeyBits == 3
\* Number of entropy streams the host's crypto.getRandomValues is sampled by.
MaxSeed == 10
\* Plaintexts and scalars are sampled this far from each end of their range.
MaxSample == 1
\* Slots of a ballot (CANDIDATE_COUNT = 5 in the code).
NumSlots == 2
\* Clicks on the page that post a callback drawing from the entropy stream.
MaxRuns == 3
\* Callbacks posted by setTimeout and not yet fired.
MaxPending == 1
\* Prime widths tried beyond HalfKeyBits.
MaxWider == 2
\* Pairs of primes drawn one after the other from one entropy stream.
MaxDraws == 2

\* ------------------------------------------------------- program constants

\* isProbablePrime(n, k = 10).
MillerRabinRounds == 10

\* ------------------------------------------------ JavaScript BigInt arithmetic

\* BigInt `a % m` for m > 0: the remainder takes the sign of the dividend.
JsRem(a, m) == IF a >= 0 THEN a % m ELSE -((-a) % m)

\* BigInt `a / b` for b > 0: truncation toward zero.
JsDiv(a, b) == IF a >= 0 THEN a \div b ELSE -((-a) \div b)

RECURSIVE Pow2(_)
Pow2(k) == IF k = 0 THEN 1 ELSE 2 * Pow2(k - 1)

\* n.toString(2).length: a minus sign counts as one character.
RECURSIVE bitLength(_)
bitLength(n) ==
    IF n < 0 THEN 1 + bitLength(-n)
    ELSE IF n < 2 THEN 1
    ELSE 1 + bitLength(n \div 2)

\* ------------------------------------------------------------ entropy source

\* crypto.getRandomValues: the host's generator, a byte stream fixed by its
\* seed.  NextEntropy advances the stream, EntropyByte is the byte it yields.
NextEntropy(s) == (s * 25173 + 13849) % 65536
EntropyByte(s) == s \div 256

\* The loop of randomBigInt: result = (result << 8) | byte, `bytes` times.
RECURSIVE ReadBytes(_, _, _)
ReadBytes(bytes, result, s) ==
    IF bytes = 0 THEN [v |-> result, s |-> s]
    ELSE ReadBytes(bytes - 1, result * 256 + EntropyByte(NextEntropy(s)), NextEntropy(s))

\* return result & mask, mask = (1 << bitLength) - 1.
MaskBits(raw, bits) == [v |-> raw.v % Pow2(bits), s |-> raw.s]

\* randomBigInt(bitLength): ceil(bitLength / 8) bytes, masked to bitLength bits.
randomBigInt(bits, s) == MaskBits(ReadBytes((bits + 7) \div 8, 0, s), bits)

\* The do-while of randomRange for range > 0: sample until below the range.
RECURSIVE RandomRangeLoop(_, _, _)
RandomRangeTest(range, bits, d) ==
    IF d.v >= range THEN RandomRangeLoop(range, bits, d.s) ELSE d
RandomRangeLoop(range, bits, s) == RandomRangeTest(range, bits, randomBigInt(bits, s))

\* return result + min.
AddMin(d, min) == [v |-> d.v + min, s |-> d.s, hangs |-> FALSE]

\* randomRange(min, max).  With max <= min no sample is ever below the range
\* (samples are >= 0 >= range), so the loop never exits: hangs.
randomRange(min, max, s) ==
    IF max - min <= 0 THEN [v |-> min, s |-> s, hangs |-> TRUE]
    ELSE AddMin(RandomRangeLoop(max - min, bitLength(max - min), s), min)

\* --------------------------------------------------------- modular arithmetic

\* The while loop of modPow: square-and-multiply, exp >> 1 each round.
RECURSIVE ModPowLoop(_, _, _, _)
ModPowLoop(result, base, exp, mod) ==
    IF exp > 0
    THEN ModPowLoop(IF exp % 2 = 1 THEN JsRem(result * base, mod) ELSE result,
                    JsRem(base * base, mod), exp \div 2, mod)
    ELSE result

\* modPow(base, exp, mod); an exponent <= 0 leaves result = 1.
modPow(base, exp, mod) ==
    IF mod = 1 THEN 0 ELSE ModPowLoop(1, JsRem(base, mod), exp, mod)

\* extendedGcd(a, b) = <<gcd, x, y>> with gcd = a*x + b*y (a, b >= 0).
RECURSIVE extendedGcd(_, _)
ExtendedGcdBack(a, b, r) == <<r[1], r[3] - (b \div a) * r[2], r[2]>>
extendedGcd(a, b) ==
    IF a = 0 THEN <<b, 0, 1>> ELSE ExtendedGcdBack(a, b, extendedGcd(b % a, a))

ModInverseRaw(r, m) ==
    IF r[1] # 1 THEN [threw |-> TRUE, v |-> 0]
    ELSE [threw |-> FALSE, v |-> r[2]]

\* The end of modInverse: throw unless gcd = 1, else (x % m + m) % m.
ModInverseResult(r, m) ==
    IF r[1] # 1 THEN [threw |-> TRUE, v |-> 0]
    ELSE [threw |-> FALSE, v |-> JsRem(JsRem(r[2], m) + m, m)]

\* modInverse(a, m).
modInverse(a, m) == ModInverseResult(extendedGcd(a, m), m)

RECURSIVE gcd(_, _)
gcd(a, b) == IF b # 0 THEN gcd(b, a % b) ELSE a

lcm(a, b) == (a * b) \div gcd(a, b)

areCoprime(a, b) == gcd(a, b) = 1

\* L(x, n) = (x - 1) / n, BigInt division.
L(x, n) == JsDiv(x - 1, n)

\* ------------------------------------------------------------ prime generation

\* The inner for loop of isProbablePrime: square x up to r - 1 times looking
\* for n - 1; TRUE when the witness proves n composite.
RECURSIVE MillerRabinComposite(_, _, _, _)
MillerRabinSquaredOn(x2, j, r, n) == MillerRabinComposite(x2, j + 1, r, n)

MillerRabinSquared(x2, j, r, n) ==
    IF x2 = n - 1 THEN FALSE ELSE MillerRabinComposite(x2, j + 1, r, n)
MillerRabinComposite(x, j, r, n) ==
    IF j < r - 1 THEN MillerRabinSquared(modPow(x, 2, n), j, r, n) ELSE TRUE

\* The k rounds of isProbablePrime, each drawing a witness from [2, n - 1).
RECURSIVE MillerRabinRoundsLoop(_, _, _, _, _, _)
MillerRabinRound(x, i, k, d, r, n, s) ==
    IF x = 1 \/ x = n - 1
    THEN MillerRabinRoundsLoop(i + 1, k, d, r, n, s)
    ELSE IF MillerRabinComposite(x, 0, r, n)
         THEN [v |-> FALSE, s |-> s]
         ELSE MillerRabinRoundsLoop(i + 1, k, d, r, n, s)
MillerRabinWitness(a, i, k, d, r, n) ==
    MillerRabinRound(modPow(a.v, d, n), i, k, d, r, n, a.s)
MillerRabinRoundsLoop(i, k, d, r, n, s) ==
    IF i >= k THEN [v |-> TRUE, s |-> s]
    ELSE MillerRabinWitness(randomRange(2, n - 1, s), i, k, d, r, n)

\* n - 1 = d * 2^r with d odd.
RECURSIVE OddPart(_)
OddPart(d) == IF d % 2 = 0 THEN OddPart(d \div 2) ELSE d
RECURSIVE TwoExponent(_)
TwoExponent(d) == IF d % 2 = 0 THEN 1 + TwoExponent(d \div 2) ELSE 0

\* isProbablePrime(n, k).
isProbablePrime(n, k, s) ==
    IF n = 2 \/ n = 3 THEN [v |-> TRUE, s |-> s]
    ELSE IF n < 2 \/ n % 2 = 0 THEN [v |-> FALSE, s |-> s]
    ELSE MillerRabinRoundsLoop(0, k, OddPart(n - 1), TwoExponent(n - 1), n, s)

SetTopBitNot(c, bits) == c

\* candidate |= 1n; candidate |= 1n << (bitLength - 1).
SetBottomBit(c) == IF c % 2 = 0 THEN c + 1 ELSE c
SetTopBit(c, bits) == IF c >= Pow2(bits - 1) THEN c ELSE c + Pow2(bits - 1)

\* The do-while of generatePrime: a fresh candidate until one passes the test.
RECURSIVE generatePrime(_, _)
PrimeTested(candidate, t, bits) ==
    IF ~t.v THEN generatePrime(bits, t.s) ELSE [v |-> candidate, s |-> t.s]
PrimeCandidate(candidate, bits, s) ==
    PrimeTested(candidate, isProbablePrime(candidate, MillerRabinRounds, s), bits)
PrimeDrawn(d, bits) == PrimeCandidate(SetTopBit(SetBottomBit(d.v), bits), bits, d.s)
generatePrime(bits, s) == PrimeDrawn(randomBigInt(bits, s), bits)

\* The do-while of generateTwoPrimes: regenerate q while p = q.
RECURSIVE GenerateSecondPrime(_, _, _)
SecondPrimeTest(p, bits, q) ==
    IF q.v = p THEN GenerateSecondPrime(p, bits, q.s) ELSE [p |-> p, q |-> q.v, s |-> q.s]
GenerateSecondPrime(p, bits, s) == SecondPrimeTest(p, bits, generatePrime(bits, s))

FirstPrime(p, bits) == GenerateSecondPrime(p.v, bits, p.s)

\* generateTwoPrimes(bitLength) = [p, q].
generateTwoPrimes(bits, s) == FirstPrime(generatePrime(bits, s), bits)

\* ------------------------------------------------------------ Paillier engine

VARIABLES
    entropy,     \* state of the host's entropy stream
    publicKey,   \* this.publicKey: Null or {n, g, nSquared}
    privateKey,  \* this.privateKey: Null or {lambda, mu, n}
    keygens,     \* number of generateKeys calls so far
    encs,        \* the caller's encryptions: plaintext, ciphertext, randomness
    last,        \* the last engine call: its arguments and what it returned or threw
    submitted,   \* the proof object handed to the verifier, and where it came from
    report,      \* what the last verification returned, or that it threw
    currentVotes,    \* the page's selection: one boolean per candidate
    voteProofs,      \* the page's proofs: empty, or the one proof of the ballot
    isKeysGenerated, \* the page's flag that a key pair is loaded
    timers,          \* the callbacks handed to setTimeout, in the order they fire
    overtaken,       \* history: for each of them, whether the ballot was cleared meanwhile
    disabled,        \* the buttons updateUIState left disabled
    runs             \* number of callbacks that drew from the entropy stream

\* The state of the page (voting-system.js) beside the engines'.
page == <<currentVotes, voteProofs, isKeysGenerated, timers, overtaken, disabled, runs>>

vars == <<entropy, publicKey, privateKey, keygens, encs, last, submitted, report, page>>

Null == [null |-> TRUE]

\* this.keySize, scaled down (the code sets 1024).
keySize == 2 * HalfKeyBits

\* Store keys: publicKey = {n, g, nSquared}, privateKey = {lambda, mu, n}.
KeysWithMu(pq, n, lambda, mu) ==
    [threw      |-> mu.threw,
     publicKey  |-> [n |-> n, g |-> n + 1, nSquared |-> n * n],
     privateKey |-> [lambda |-> lambda, mu |-> mu.v, n |-> n],
     p |-> pq.p, q |-> pq.q, s |-> pq.s]

\* g = n + 1, nSquared = n * n, mu = (L(g^lambda mod n^2))^-1 mod n.
KeysWithLambda(pq, n, lambda) ==
    KeysWithMu(pq, n, lambda, modInverse(L(modPow(n + 1, lambda, n * n), n), n))

KeysFromPrimesPhi(pq) == KeysWithLambda(pq, pq.p * pq.q, (pq.p - 1) * (pq.q - 1))

\* n = p * q, lambda = lcm(p - 1, q - 1).
KeysFromPrimes(pq) == KeysWithLambda(pq, pq.p * pq.q, lcm(pq.p - 1, pq.q - 1))

\* generateKeys().
generateKeys(s) == KeysFromPrimes(generateTwoPrimes(keySize \div 2, s))

DrawCoprimeAny(r, n) == r

\* The do-while of encrypt: draw r from [1, n) until gcd(r, n) = 1.
RECURSIVE DrawCoprime(_, _)
DrawCoprimeTest(r, n) == IF ~areCoprime(r.v, n) THEN DrawCoprime(n, r.s) ELSE r
DrawCoprime(n, s) == DrawCoprimeTest(randomRange(1, n, s), n)

\* c = g^m * r^n mod n^2.
EncryptWith(plaintext, r, pubKey) ==
    (modPow(pubKey.g, plaintext, pubKey.nSquared) * modPow(r, pubKey.n, pubKey.nSquared))
        % pubKey.nSquared

Encrypted(plaintext, r, pubKey) ==
    [err |-> "", ciphertext |-> EncryptWith(plaintext, r.v, pubKey),
     randomness |-> r.v, s |-> r.s]

\* encrypt(plaintext): the ciphertext and the randomness, or the error thrown.
encrypt(plaintext, pubKey, s) ==
    IF pubKey = Null
    THEN [err |-> "No public key available for encryption", s |-> s]
    ELSE IF plaintext < 0 \/ plaintext >= pubKey.n
    THEN [err |-> "Plaintext must be in range [0, n)", s |-> s]
    ELSE Encrypted(plaintext, DrawCoprime(pubKey.n, s), pubKey)

decryptNoMu(ciphertext, privKey) ==
    IF privKey = Null
    THEN [err |-> "No private key available for decryption"]
    ELSE [err |-> "",
          plaintext |-> L(modPow(ciphertext, privKey.lambda, privKey.n * privKey.n),
                          privKey.n) % privKey.n]

\* decrypt(ciphertext): m = L(c^lambda mod n^2) * mu mod n.
decrypt(ciphertext, privKey) ==
    IF privKey = Null
    THEN [err |-> "No private key available for decryption"]
    ELSE [err |-> "",
          plaintext |-> JsRem(L(modPow(ciphertext, privKey.lambda, privKey.n * privKey.n),
                                privKey.n) * privKey.mu, privKey.n)]

addCiphertextsPlus(c1, c2, pubKey) ==
    IF pubKey = Null THEN [err |-> "No public key available"]
    ELSE [err |-> "", c |-> (c1 + c2) % pubKey.nSquared]

\* addCiphertexts(c1, c2) = (c1 * c2) % nSquared.
addCiphertexts(c1, c2, pubKey) ==
    IF pubKey = Null THEN [err |-> "No public key available"]
    ELSE [err |-> "", c |-> JsRem(c1 * c2, pubKey.nSquared)]

scalarMultiplyTimes(ciphertext, scalar, pubKey) ==
    IF pubKey = Null THEN [err |-> "No public key available"]
    ELSE [err |-> "", c |-> JsRem(ciphertext * scalar, pubKey.nSquared)]

\* scalarMultiply(ciphertext, scalar) = modPow(ciphertext, scalar, nSquared).
scalarMultiply(ciphertext, scalar, pubKey) ==
    IF pubKey = Null THEN [err |-> "No public key available"]
    ELSE [err |-> "", c |-> modPow(ciphertext, scalar, pubKey.nSquared)]

\* The for loop of sumCiphertexts from index i on.
RECURSIVE SumLoop(_, _, _, _)
SumLoop(result, ciphertexts, i, nSquared) ==
    IF i > Len(ciphertexts) THEN result
    ELSE SumLoop(JsRem(result * ciphertexts[i], nSquared), ciphertexts, i + 1, nSquared)

sumCiphertextsFirst(ciphertexts, pubKey) ==
    IF Len(ciphertexts) = 0 THEN [err |-> "Cannot sum empty array of ciphertexts"]
    ELSE IF pubKey = Null THEN [err |-> "No public key available"]
    ELSE [err |-> "", c |-> ciphertexts[1]]

\* sumCiphertexts(ciphertexts): the product of them all modulo nSquared.
sumCiphertexts(ciphertexts, pubKey) ==
    IF Len(ciphertexts) = 0 THEN [err |-> "Cannot sum empty array of ciphertexts"]
    ELSE IF pubKey = Null THEN [err |-> "No public key available"]
    ELSE [err |-> "", c |-> SumLoop(ciphertexts[1], ciphertexts, 2, pubKey.nSquared)]

isValidCiphertext(ciphertext, pubKey) ==
    IF pubKey = Null THEN FALSE
    ELSE ciphertext > 0 /\ ciphertext < pubKey.nSquared

\* ------------------------------------------------------ proof engine: hashing

\* JavaScript `undefined` where an object is expected.
Undefined == [undefined |-> TRUE]

\* An own property that holds an object, or undefined when the object lacks it.
\* Every object carries `absent`, the names of the properties it lacks.
Prop(obj, name) == IF name \in obj.absent THEN Undefined ELSE obj[name]

\* The message of the TypeError raised by a use of undefined.
TypeError == "TypeError"

\* BigInt.prototype.toString(): the char codes of the decimal digits.
RECURSIVE DigitCodes(_)
DigitCodes(x) ==
    IF x < 10 THEN <<48 + x>> ELSE Append(DigitCodes(x \div 10), 48 + (x % 10))

toString(x) == IF x < 0 THEN <<45>> \o DigitCodes(-x) ELSE DigitCodes(x)

\* One round of simpleHash: hash = ((hash << 5) - hash) + char; hash = hash & hash.
\* The 32-bit value is kept as two 16-bit halves, hash = hi * 2^16 + lo.
HashRound(hash, char) ==
    [lo |-> (31 * hash.lo + char) % Pow2(16),
     hi |-> (31 * hash.hi + (31 * hash.lo + char) \div Pow2(16)) % Pow2(16)]

RECURSIVE HashLoop(_, _, _)
HashLoop(hash, input, i) ==
    IF i > Len(input) THEN hash ELSE HashLoop(HashRound(hash, input[i]), input, i + 1)

\* Math.abs(hash): a value with hi >= 2^15 is a negative 32-bit integer.
MathAbs(hash) ==
    IF hash.hi < Pow2(15) THEN hash
    ELSE IF hash.lo = 0 THEN [lo |-> 0, hi |-> Pow2(16) - hash.hi]
    ELSE [lo |-> Pow2(16) - hash.lo, hi |-> Pow2(16) - 1 - hash.hi]

\* simpleHash(input), input given by its char codes.
simpleHash(input) == MathAbs(HashLoop([lo |-> 0, hi |-> 0], input, 1))

\* BigInt(hash) % n.
BigIntRem(hash, n) == ((hash.hi % n) * (Pow2(16) % n) + hash.lo) % n

\* generateChallenge(ciphertext, commitment0, commitment1).  The hash is never
\* negative, so neither is the remainder.
generateChallenge(ciphertext, commitment0, commitment1, pubKey) ==
    BigIntRem(simpleHash(toString(ciphertext) \o toString(commitment0)
                            \o toString(commitment1)), pubKey.n)

\* generateSumChallenge(encryptedSum, commitment, expectedSum).
generateSumChallenge(encryptedSum, commitment, expectedSum, pubKey) ==
    BigIntRem(simpleHash(toString(encryptedSum) \o toString(commitment)
                            \o toString(expectedSum)), pubKey.n)

\* ------------------------------------------------------ proof engine: proving

\* k successive randomRange(1, n) calls, in the order the code makes them.
RECURSIVE Draws(_, _, _, _)
DrawsNext(k, n, d, acc) == Draws(k - 1, n, d.s, Append(acc, d.v))
Draws(k, n, s, acc) ==
    IF k = 0 THEN [v |-> acc, s |-> s] ELSE DrawsNext(k, n, randomRange(1, n, s), acc)

\* a = g^s * r'^n mod n^2, the commitment of a real branch and of the sum proof.
Commitment(s, rPrime, pubKey) ==
    (modPow(pubKey.g, s, pubKey.nSquared) * modPow(rPrime, pubKey.n, pubKey.nSquared))
        % pubKey.nSquared

\* a = g^z * r^n * (c^e)^(-1) mod n^2, the commitment of a simulated branch;
\* the product of three residues is reduced after each factor.
SimulatedFromInverse(z, r, inv, pubKey) ==
    IF inv.threw THEN inv
    ELSE [threw |-> FALSE,
          v |-> (((modPow(pubKey.g, z, pubKey.nSquared)
                     * modPow(r, pubKey.n, pubKey.nSquared)) % pubKey.nSquared)
                  * inv.v) % pubKey.nSquared]

SimulatedCommitment(e, z, r, ciphertext, pubKey) ==
    SimulatedFromInverse(z, r,
        modInverse(modPow(ciphertext, e, pubKey.nSquared), pubKey.nSquared), pubKey)

ChallengeShareWhole(totalChallenge, e, n) == totalChallenge

ChallengeShareSigned(totalChallenge, e, n) == JsRem(totalChallenge - e, n)

\* e = (totalChallenge - eSimulated) % n; if (e < 0n) e += n.
ChallengeShare(totalChallenge, e, n) ==
    IF JsRem(totalChallenge - e, n) < 0
    THEN JsRem(totalChallenge - e, n) + n
    ELSE JsRem(totalChallenge - e, n)

\* { a, e, z, rResponse, plaintext }.
SubProof(a, e, z, rResponse, plaintext) ==
    [a |-> a, e |-> e, z |-> z, rResponse |-> rResponse, plaintext |-> plaintext,
     absent |-> {}]

\* The real branch: z = (s + e * plaintext) % n, r = (r' * randomness^e) % n.
RealBranch(plaintext, randomness, s, rPrime, a, e, n) ==
    SubProof(a, e, (s + e * plaintext) % n,
             (rPrime * modPow(randomness, e, n)) % n, plaintext)

\* { proof0, proof1, ciphertext, type }: the real branch is the plaintext's.
BitProof(plaintext, real, simulated, ciphertext) ==
    [proof0 |-> IF plaintext = 0 THEN real ELSE simulated,
     proof1 |-> IF plaintext = 0 THEN simulated ELSE real,
     ciphertext |-> ciphertext, type |-> "bit-value", absent |-> {}]

\* proveBitValue once the total challenge is known.  d.v = <<s, r', e, z, r>>:
\* the real branch's s and r', then the simulated branch's e, z and r.
BitProofChallenged(plaintext, ciphertext, randomness, pubKey, d, aReal, aSim, totalChallenge) ==
    BitProof(plaintext,
             RealBranch(plaintext, randomness, d.v[1], d.v[2], aReal,
                        ChallengeShare(totalChallenge, d.v[3], pubKey.n), pubKey.n),
             SubProof(aSim, d.v[3], d.v[4], d.v[5], 1 - plaintext),
             ciphertext)

\* proveBitValue once both commitments are known; modInverse may have thrown.
BitProofCommitted(plaintext, ciphertext, randomness, pubKey, d, aReal, aSim) ==
    IF aSim.threw THEN [err |-> "Modular inverse does not exist", s |-> d.s]
    ELSE [err |-> "", s |-> d.s,
          proof |-> BitProofChallenged(plaintext, ciphertext, randomness, pubKey, d,
                        aReal, aSim.v,
                        generateChallenge(ciphertext,
                            IF plaintext = 0 THEN aReal ELSE aSim.v,
                            IF plaintext = 0 THEN aSim.v ELSE aReal, pubKey))]

BitProofDrawn(plaintext, ciphertext, randomness, pubKey, d) ==
    BitProofCommitted(plaintext, ciphertext, randomness, pubKey, d,
        Commitment(d.v[1], d.v[2], pubKey),
        SimulatedCommitment(d.v[3], d.v[4], d.v[5], ciphertext, pubKey))

\* proveBitValue(plaintext, ciphertext, randomness): the proof or the error.
proveBitValue(plaintext, ciphertext, randomness, pubKey, s) ==
    IF plaintext # 0 /\ plaintext # 1
    THEN [err |-> "Plaintext must be 0 or 1 for bit proof", s |-> s]
    ELSE IF pubKey = Null THEN [err |-> TypeError, s |-> s]
    ELSE BitProofDrawn(plaintext, ciphertext, randomness, pubKey,
                       Draws(5, pubKey.n, s, <<>>))

\* { encryptedSum, expectedSum, a, e, z, rResponse, type }, d.v = <<s, r'>>.
SumProofChallenged(expectedSum, encryptedSum, combinedRandomness, pubKey, d, a, e) ==
    [encryptedSum |-> encryptedSum, expectedSum |-> expectedSum, a |-> a, e |-> e,
     z |-> (d.v[1] + e * expectedSum) % pubKey.n,
     rResponse |-> (d.v[2] * modPow(combinedRandomness, e, pubKey.n)) % pubKey.n,
     type |-> "sum-equals-one", absent |-> {}]

SumProofCommitted(expectedSum, encryptedSum, combinedRandomness, pubKey, d, a) ==
    SumProofChallenged(expectedSum, encryptedSum, combinedRandomness, pubKey, d, a,
                       generateSumChallenge(encryptedSum, a, expectedSum, pubKey))

SumProofDrawn(expectedSum, encryptedSum, combinedRandomness, pubKey, d) ==
    [err |-> "", s |-> d.s,
     proof |-> SumProofCommitted(expectedSum, encryptedSum, combinedRandomness, pubKey, d,
                                 Commitment(d.v[1], d.v[2], pubKey))]

\* generateSumProof(expectedSum, encryptedSum, combinedRandomness, n, g, nSquared).
generateSumProof(expectedSum, encryptedSum, combinedRandomness, pubKey, s) ==
    SumProofDrawn(expectedSum, encryptedSum, combinedRandomness, pubKey,
                  Draws(2, pubKey.n, s, <<>>))

\* plaintextVotes.reduce((acc, vote) => acc + vote, 0n).
RECURSIVE SumVotes(_, _)
SumVotes(plaintextVotes, i) ==
    IF i > Len(plaintextVotes) THEN 0 ELSE plaintextVotes[i] + SumVotes(plaintextVotes, i + 1)

\* combinedRandomness = (combinedRandomness * r) % n over the randomnesses.
RECURSIVE CombineRandomness(_, _, _, _)
CombineRandomness(combinedRandomness, randomnesses, i, n) ==
    IF i > Len(randomnesses) THEN combinedRandomness
    ELSE CombineRandomness(JsRem(combinedRandomness * randomnesses[i], n),
                           randomnesses, i + 1, n)

proveSumUnchecked(encryptedVotes, plaintextVotes, randomnesses, pubKey, s) ==
    generateSumProof(1, sumCiphertexts(encryptedVotes, pubKey).c,
                     CombineRandomness(1, randomnesses, 1, pubKey.n), pubKey, s)

\* proveSumEqualsOne(encryptedVotes, plaintextVotes, randomnesses).
proveSumEqualsOne(encryptedVotes, plaintextVotes, randomnesses, pubKey, s) ==
    IF Len(encryptedVotes) # Len(plaintextVotes) \/ Len(encryptedVotes) # Len(randomnesses)
    THEN [err |-> "Array lengths must match", s |-> s]
    ELSE IF SumVotes(plaintextVotes, 1) # 1
    THEN [err |-> "Plaintext votes must sum to exactly 1", s |-> s]
    ELSE IF pubKey = Null THEN [err |-> TypeError, s |-> s]
    ELSE generateSumProof(1, sumCiphertexts(encryptedVotes, pubKey).c,
                          CombineRandomness(1, randomnesses, 1, pubKey.n), pubKey, s)

\* The for loop of generateVoteProof: bitProofs.push(proveBitValue(...)); the
\* loop ends at the first error thrown.
RECURSIVE BitProofsLoop(_, _, _, _, _, _)
\* proveBitValue called with randomness undefined: what it throws first, or
\* else the TypeError of modPow(undefined, e, n) once the draws are made.
UndefinedRandomness(b) == IF b.err # "" THEN b ELSE [err |-> TypeError, s |-> b.s]

\* proveBitValue(plaintextVotes[i], encryptedVotes[i], randomnesses[i]); an
\* index past the end of an array reads undefined, and undefined is not 0n or 1n.
ProveBitAt(encryptedVotes, plaintextVotes, randomnesses, pubKey, i, s) ==
    IF i > Len(plaintextVotes)
    THEN [err |-> "Plaintext must be 0 or 1 for bit proof", s |-> s]
    ELSE IF i > Len(randomnesses)
    THEN UndefinedRandomness(proveBitValue(plaintextVotes[i], encryptedVotes[i], 1, pubKey, s))
    ELSE proveBitValue(plaintextVotes[i], encryptedVotes[i], randomnesses[i], pubKey, s)

BitProofsPush(encryptedVotes, plaintextVotes, randomnesses, pubKey, i, acc, b) ==
    IF b.err # "" THEN [err |-> b.err, s |-> b.s, bitProofs |-> acc.bitProofs]
    ELSE BitProofsLoop(encryptedVotes, plaintextVotes, randomnesses, pubKey, i + 1,
                       [err |-> "", s |-> b.s, bitProofs |-> Append(acc.bitProofs, b.proof)])
BitProofsLoop(encryptedVotes, plaintextVotes, randomnesses, pubKey, i, acc) ==
    IF i > Len(encryptedVotes) THEN acc
    ELSE BitProofsPush(encryptedVotes, plaintextVotes, randomnesses, pubKey, i, acc,
                       ProveBitAt(encryptedVotes, plaintextVotes, randomnesses, pubKey,
                                  i, acc.s))

\* The return of generateVoteProof, or the error of proveSumEqualsOne; `made`
\* counts the bit proofs pushed before it.  (timestamp: Date.now() is left out.)
VoteProofSummed(bits, sum) ==
    IF sum.err # "" THEN [err |-> sum.err, s |-> sum.s, made |-> Len(bits.bitProofs)]
    ELSE [err |-> "", s |-> sum.s, made |-> Len(bits.bitProofs),
          proof |-> [bitProofs |-> bits.bitProofs, sumProof |-> sum.proof,
                     type |-> "complete-vote-proof", absent |-> {}]]

VoteProofBits(encryptedVotes, plaintextVotes, randomnesses, pubKey, bits) ==
    IF bits.err # "" THEN [err |-> bits.err, s |-> bits.s, made |-> Len(bits.bitProofs)]
    ELSE VoteProofSummed(bits, proveSumEqualsOne(encryptedVotes, plaintextVotes,
                                                 randomnesses, pubKey, bits.s))

\* generateVoteProof(encryptedVotes, plaintextVotes, randomnesses).
generateVoteProof(encryptedVotes, plaintextVotes, randomnesses, pubKey, s) ==
    VoteProofBits(encryptedVotes, plaintextVotes, randomnesses, pubKey,
        BitProofsLoop(encryptedVotes, plaintextVotes, randomnesses, pubKey, 1,
                      [err |-> "", s |-> s, bitProofs |-> <<>>]))

\* ---------------------------------------------------- proof engine: verifying

\* modPow(base, obj.field, mod) where the exponent may be undefined: the loop
\* test `undefined > 0n` is false, so result stays 1n.
ModPowField(base, obj, field, mod) ==
    IF field \in obj.absent THEN (IF mod = 1 THEN 0 ELSE 1)
    ELSE modPow(base, obj[field], mod)

\* leftSide === rightSide: g^z * r^n = a * c^e (mod n^2).
SigmaEquation(proof, ciphertext, pubKey) ==
    JsRem(ModPowField(pubKey.g, proof, "z", pubKey.nSquared)
            * modPow(proof.rResponse, pubKey.n, pubKey.nSquared), pubKey.nSquared)
        = JsRem(proof.a * ModPowField(ciphertext, proof, "e", pubKey.nSquared),
                pubKey.nSquared)

\* verifySingleBitProof(proof, ciphertext, expectedPlaintext, n, g, nSquared):
\* an undefined rResponse or a makes BigInt arithmetic throw inside the try,
\* and the catch returns false.  expectedPlaintext is only logged.
verifySingleBitProof(proof, ciphertext, expectedPlaintext, pubKey) ==
    IF "rResponse" \in proof.absent \/ "a" \in proof.absent THEN FALSE
    ELSE SigmaEquation(proof, ciphertext, pubKey)

\* What a verification that threw left its caller with.
Threw == [threw |-> TRUE, valid |-> FALSE, error |-> TypeError]

\* The uses of undefined inside the try of verifyBitProof, before the
\* branches are verified: proof0.a, proof1.a, ciphertext.toString(),
\* proof0.e + proof1.e.
BitProofUnreadable(proof) ==
    \/ {"proof0", "proof1", "ciphertext"} \cap proof.absent # {}
    \/ {"a", "e"} \cap proof.proof0.absent # {}
    \/ {"a", "e"} \cap proof.proof1.absent # {}

BitProofChecked(proof, pubKey, totalChallenge) ==
    [threw |-> FALSE, error |-> "",
     valid |-> /\ verifySingleBitProof(proof.proof0, proof.ciphertext, 0, pubKey)
               /\ verifySingleBitProof(proof.proof1, proof.ciphertext, 1, pubKey)
               /\ JsRem(proof.proof0.e + proof.proof1.e, pubKey.n) = totalChallenge,
     proof0Valid |-> verifySingleBitProof(proof.proof0, proof.ciphertext, 0, pubKey),
     proof1Valid |-> verifySingleBitProof(proof.proof1, proof.ciphertext, 1, pubKey),
     challengeValid |-> JsRem(proof.proof0.e + proof.proof1.e, pubKey.n) = totalChallenge]

\* verifyBitProof(proof): the two destructurings come before the try.
verifyBitProof(proof, pubKey) ==
    IF proof = Undefined \/ pubKey = Null THEN Threw
    ELSE IF BitProofUnreadable(proof)
    THEN [threw |-> FALSE, valid |-> FALSE, error |-> TypeError]
    ELSE BitProofChecked(proof, pubKey,
             generateChallenge(proof.ciphertext, proof.proof0.a, proof.proof1.a, pubKey))

\* verifySumProof(proof): the two destructurings come before the try; inside
\* it an undefined rResponse, a or encryptedSum throws in the arithmetic and an
\* undefined expectedSum in details (expectedSum.toString()).
verifySumProof(proof, pubKey) ==
    IF proof = Undefined \/ pubKey = Null THEN Threw
    ELSE IF {"rResponse", "a", "encryptedSum", "expectedSum"} \cap proof.absent # {}
    THEN [threw |-> FALSE, valid |-> FALSE, error |-> TypeError]
    ELSE [threw |-> FALSE, error |-> "",
          valid |-> SigmaEquation(proof, proof.encryptedSum, pubKey)]

\* The for loop of verifyVoteProof; a throw of verifyBitProof ends it.
RECURSIVE VerifyBitsLoop(_, _, _, _)
VerifyBitsPushStop(bitProofs, pubKey, i, results, result) ==
    IF result.threw \/ ~result.valid
    THEN [threw |-> result.threw,
          bitProofResults |-> Append(results.bitProofResults,
              [candidateIndex |-> i - 1, valid |-> FALSE, error |-> result.error]),
          bitProofsValid |-> FALSE]
    ELSE VerifyBitsLoop(bitProofs, pubKey, i + 1,
            [threw |-> FALSE,
             bitProofResults |-> Append(results.bitProofResults,
                 [candidateIndex |-> i - 1, valid |-> result.valid, error |-> result.error]),
             bitProofsValid |-> results.bitProofsValid /\ result.valid])

VerifyBitsPush(bitProofs, pubKey, i, results, result) ==
    IF result.threw THEN [threw |-> TRUE, bitProofResults |-> results.bitProofResults,
                          bitProofsValid |-> results.bitProofsValid]
    ELSE VerifyBitsLoop(bitProofs, pubKey, i + 1,
            [threw |-> FALSE,
             bitProofResults |-> Append(results.bitProofResults,
                 [candidateIndex |-> i - 1, valid |-> result.valid, error |-> result.error]),
             bitProofsValid |-> results.bitProofsValid /\ result.valid])
VerifyBitsLoop(bitProofs, pubKey, i, results) ==
    IF i > Len(bitProofs) THEN results
    ELSE VerifyBitsPush(bitProofs, pubKey, i, results, verifyBitProof(bitProofs[i], pubKey))

\* results after the sum proof was verified.
VoteSumVerified(results, sumResult) ==
    IF sumResult.threw THEN Threw
    ELSE [threw |-> FALSE, bitProofsValid |-> results.bitProofsValid,
          bitProofResults |-> results.bitProofResults,
          sumProofValid |-> sumResult.valid, sumProofError |-> sumResult.error,
          overallValid |-> results.bitProofsValid /\ sumResult.valid]

VoteBitsVerified(voteProof, pubKey, results) ==
    IF results.threw THEN Threw
    ELSE VoteSumVerified(results, verifySumProof(Prop(voteProof, "sumProof"), pubKey))

\* verifyVoteProof(voteProof): the report, or threw when an exception escaped
\* (bitProofs.length of undefined, or one thrown by a callee).
verifyVoteProof(voteProof, pubKey) ==
    IF "bitProofs" \in voteProof.absent THEN Threw
    ELSE VoteBitsVerified(voteProof, pubKey,
             VerifyBitsLoop(voteProof.bitProofs, pubKey, 1,
                 [threw |-> FALSE, bitProofResults |-> <<>>, bitProofsValid |-> TRUE]))

\* ------------------------------------------------------------------ inputs

\* A range sampled at both ends.
Ends(lo, hi) == {x \in lo..hi : x <= lo + MaxSample \/ x >= hi - MaxSample}

\* Plaintexts handed to encrypt: the whole of [0, n) and one value past each end.
AllPlaintexts == IF publicKey = Null THEN {0} ELSE (-1)..publicKey.n
\* The plaintexts of further encryptions.
SampledPlaintexts == IF publicKey = Null THEN {0} ELSE Ends(0, publicKey.n - 1) \cup {2}
\* Scalars: small ones, and ones from n on.
Scalars == IF publicKey = Null THEN {0}
           ELSE 0..MaxSample \cup publicKey.n..(publicKey.n + MaxSample)

Seeds == 0..(MaxSeed - 1)

\* ----------------------------------------------------------------- actions

Init ==
    /\ entropy \in Seeds
    /\ publicKey = Null
    /\ privateKey = Null
    /\ keygens = 0
    /\ encs = <<>>
    /\ last = [op |-> "none"]
    /\ submitted = [kind |-> "none"]
    /\ report = [op |-> "none"]
    /\ currentVotes = [i \in 1..NumSlots |-> FALSE]
    /\ voteProofs = <<>>
    /\ isKeysGenerated = FALSE
    /\ timers = <<>>
    /\ overtaken = <<>>
    /\ disabled = {"clearKeys", "encryptVotes", "clearVotes",
                   "verifyZKPs", "debugZKP", "computeTally", "sendVote"}
    /\ runs = 0

\* paillier.generateKeys(): the keys are stored unless modInverse threw.
KeysGenerated(k) ==
    /\ entropy' = k.s
    /\ keygens' = keygens + 1
    /\ publicKey' = IF k.threw THEN publicKey ELSE k.publicKey
    /\ privateKey' = IF k.threw THEN privateKey ELSE k.privateKey
    /\ last' = [op |-> "generateKeys", p |-> k.p, q |-> k.q,
                err |-> IF k.threw THEN "Modular inverse does not exist" ELSE ""]

\* A session generates its key pair once.
GenerateKeys ==
    /\ publicKey = Null
    /\ KeysGenerated(generateKeys(entropy))
    /\ UNCHANGED <<page, encs, submitted, report>>

\* paillier.encrypt(m); the caller keeps the ciphertext and the randomness.
EncryptDone(m, e) ==
    /\ entropy' = e.s
    /\ last' = [op |-> "encrypt", err |-> e.err, plaintext |-> m]
    /\ encs' = IF e.err = ""
               THEN Append(encs, [plaintext |-> m, ciphertext |-> e.ciphertext,
                                  randomness |-> e.randomness, key |-> keygens])
               ELSE encs

Encrypt(m) ==
    /\ EncryptDone(m, encrypt(m, publicKey, entropy))
    /\ UNCHANGED <<page, publicKey, privateKey, keygens, submitted, report>>

EncryptFirst == \E m \in AllPlaintexts : Len(encs) = 0 /\ Encrypt(m)

\* The second operand of a homomorphic operation.
EncryptSecond == \E m \in SampledPlaintexts : Len(encs) = 1 /\ Encrypt(m)

\* What a homomorphic operation returned: the ciphertext or the error.
Returned(r) == IF r.err = "" THEN r.c ELSE 0

\* paillier.addCiphertexts(encs[i].ciphertext, encs[j].ciphertext).
AddCiphertexts ==
    \E i, j \in 1..Len(encs) :
        /\ last' = [op |-> "addCiphertexts", i |-> i, j |-> j, scalar |-> 0,
                    err    |-> addCiphertexts(encs[i].ciphertext, encs[j].ciphertext, publicKey).err,
                    result |-> Returned(addCiphertexts(encs[i].ciphertext, encs[j].ciphertext, publicKey))]
        /\ UNCHANGED <<page, entropy, publicKey, privateKey, keygens, encs, submitted, report>>

\* paillier.scalarMultiply(encs[i].ciphertext, k).
ScalarMultiply ==
    \E i \in 1..Len(encs), k \in Scalars :
        /\ last' = [op |-> "scalarMultiply", i |-> i, j |-> 0, scalar |-> k,
                    err    |-> scalarMultiply(encs[i].ciphertext, k, publicKey).err,
                    result |-> Returned(scalarMultiply(encs[i].ciphertext, k, publicKey))]
        /\ UNCHANGED <<page, entropy, publicKey, privateKey, keygens, encs, submitted, report>>

\* What decrypt returned: the plaintext or the error.
Decrypted(d, of, i, j, k) ==
    [op |-> "decrypt", err |-> d.err, of |-> of, i |-> i, j |-> j, scalar |-> k,
     plaintext |-> IF d.err = "" THEN d.plaintext ELSE 0]

\* paillier.decrypt(encs[i].ciphertext).
DecryptSlot ==
    \E i \in 1..Len(encs) :
        /\ last' = Decrypted(decrypt(encs[i].ciphertext, privateKey), "encrypt", i, 0, 0)
        /\ UNCHANGED <<page, entropy, publicKey, privateKey, keygens, encs, submitted, report>>

\* paillier.decrypt of the ciphertext the last homomorphic operation returned.
DecryptResult ==
    /\ last.op \in {"addCiphertexts", "scalarMultiply"}
    /\ last.err = ""
    /\ last' = Decrypted(decrypt(last.result, privateKey), last.op, last.i, last.j, last.scalar)
    /\ UNCHANGED <<page, entropy, publicKey, privateKey, keygens, encs, submitted, report>>

NextPaillier ==
    \/ GenerateKeys
    \/ EncryptFirst
    \/ EncryptSecond
    \/ AddCiphertexts
    \/ ScalarMultiply
    \/ DecryptSlot
    \/ DecryptResult

SpecPaillier == Init /\ [][NextPaillier]_vars

\* ------------------------------------------------------- actions: proofs

\* The values of a ballot slot: the two bits, and 2 for a non-bit.
VoteValues == 0..2

\* One slot of the ballot is encrypted.
EncryptVote ==
    \E m \in VoteValues :
        /\ Len(encs) < NumSlots
        /\ submitted.kind = "none"
        /\ last.op # "generateVoteProof"
        /\ Encrypt(m)

\* The three arrays handed to generateVoteProof.
Ciphertexts == [i \in 1..Len(encs) |-> encs[i].ciphertext]
Plaintexts == [i \in 1..Len(encs) |-> encs[i].plaintext]
Randomnesses == [i \in 1..Len(encs) |-> encs[i].randomness]

VoteProofGenerated(r) ==
    /\ entropy' = r.s
    /\ last' = [op |-> "generateVoteProof", err |-> r.err, made |-> r.made]
    /\ submitted' = IF r.err = ""
                THEN [kind |-> "vote", origin |-> "generateVoteProof", obj |-> r.proof]
                ELSE submitted

\* zkp.generateVoteProof(ciphertexts, plaintexts, randomnesses) on the ballot.
GenerateVoteProof ==
    /\ submitted.kind = "none"
    /\ last.op # "generateVoteProof"
    /\ Len(encs) >= 1
    /\ VoteProofGenerated(generateVoteProof(Ciphertexts, Plaintexts, Randomnesses,
                                            publicKey, entropy))
    /\ UNCHANGED <<page, publicKey, privateKey, keygens, encs, report>>

\* The numeric fields of a BallotProof, each named by its path.
BranchFields == {"a", "e", "z", "rResponse"}
SumFields == {"encryptedSum", "expectedSum", "a", "e", "z", "rResponse"}
NumericPaths(voteProof) ==
    {[part |-> "bitProofs", i |-> i, sub |-> b, field |-> f] :
        i \in 1..Len(voteProof.bitProofs), b \in {"proof0", "proof1"}, f \in BranchFields}
    \cup {[part |-> "bitProofs", i |-> i, sub |-> "", field |-> "ciphertext"] :
            i \in 1..Len(voteProof.bitProofs)}
    \cup {[part |-> "sumProof", i |-> 0, sub |-> "", field |-> f] : f \in SumFields}

\* The paths of the objects: the list, its entries, their branches, the sum proof.
ObjectPaths(voteProof) ==
    {[part |-> "bitProofs", i |-> i, sub |-> b, field |-> ""] :
        i \in 1..Len(voteProof.bitProofs), b \in {"", "proof0", "proof1"}}
    \cup {[part |-> p, i |-> 0, sub |-> "", field |-> ""] : p \in {"bitProofs", "sumProof"}}

GetField(voteProof, p) ==
    IF p.part = "sumProof" THEN voteProof.sumProof[p.field]
    ELSE IF p.sub = "" THEN voteProof.bitProofs[p.i][p.field]
    ELSE voteProof.bitProofs[p.i][p.sub][p.field]

SetField(voteProof, p, value) ==
    IF p.part = "sumProof" THEN [voteProof EXCEPT !.sumProof[p.field] = value]
    ELSE IF p.sub = "" THEN [voteProof EXCEPT !.bitProofs[p.i][p.field] = value]
    ELSE [voteProof EXCEPT !.bitProofs[p.i][p.sub][p.field] = value]

\* The object without the property (or the list without the entry) at path p.
DeleteField(voteProof, p) ==
    IF p.part = "sumProof"
    THEN IF p.field = "" THEN [voteProof EXCEPT !.absent = @ \cup {"sumProof"}]
         ELSE [voteProof EXCEPT !.sumProof.absent = @ \cup {p.field}]
    ELSE IF p.i = 0 THEN [voteProof EXCEPT !.absent = @ \cup {"bitProofs"}]
    ELSE IF p.sub = "" /\ p.field = "" THEN [voteProof EXCEPT !.bitProofs[p.i] = Undefined]
    ELSE IF p.sub = "" THEN [voteProof EXCEPT !.bitProofs[p.i].absent = @ \cup {p.field}]
    ELSE IF p.field = "" THEN [voteProof EXCEPT !.bitProofs[p.i].absent = @ \cup {p.sub}]
    ELSE [voteProof EXCEPT !.bitProofs[p.i][p.sub].absent = @ \cup {p.field}]

\* x with bit k flipped (x >= 0).
FlipBit(x, k) == IF (x \div Pow2(k)) % 2 = 1 THEN x - Pow2(k) ELSE x + Pow2(k)

\* The modulus a field is declared below: nSquared for commitments and
\* ciphertexts, n for challenges and responses.
Modulus(p, pubKey) ==
    IF p.field \in {"a", "ciphertext", "encryptedSum"} THEN pubKey.nSquared ELSE pubKey.n

\* The proof made by generateVoteProof is still as made, and not yet verified.
Untouched ==
    /\ submitted.kind = "vote"
    /\ submitted.origin = "generateVoteProof"
    /\ report.op = "none"

\* One bit of one numeric field of the proof is flipped on its way to the verifier.
Flip ==
    /\ Untouched
    /\ \E p \in NumericPaths(submitted.obj), k \in 0..(bitLength(publicKey.nSquared) - 1) :
           submitted' = [kind |-> "vote", origin |-> "flipped", path |-> p, bit |-> k,
                         obj |-> SetField(submitted.obj, p,
                                          FlipBit(GetField(submitted.obj, p), k))]
    /\ UNCHANGED <<page, entropy, publicKey, privateKey, keygens, encs, last, report>>

\* One ranged field is moved out of its range by its modulus, up or down.
Shift ==
    /\ Untouched
    /\ \E p \in NumericPaths(submitted.obj), sign \in {-1, 1} :
           /\ p.field # "expectedSum"
           /\ submitted' = [kind |-> "vote", origin |-> "shifted", path |-> p, sign |-> sign,
                            obj |-> SetField(submitted.obj, p, GetField(submitted.obj, p)
                                                + sign * Modulus(p, publicKey))]
    /\ UNCHANGED <<page, entropy, publicKey, privateKey, keygens, encs, last, report>>

\* One property, or one entry of the list, is missing from the proof.
Strip ==
    /\ Untouched
    /\ \E p \in NumericPaths(submitted.obj) \cup ObjectPaths(submitted.obj) :
           submitted' = [kind |-> "vote", origin |-> "stripped", path |-> p,
                         obj |-> DeleteField(submitted.obj, p)]
    /\ UNCHANGED <<page, entropy, publicKey, privateKey, keygens, encs, last, report>>

\* The published sum of the ballot: the product of its ciphertexts.
PublishedSum == sumCiphertexts(Ciphertexts, publicKey).c

\* A sum proof written without the randomness: e, z and rResponse are chosen
\* and the verification equation is solved for a.
ForgedSum(encryptedSum, e, z, rResponse, a) ==
    [encryptedSum |-> encryptedSum, expectedSum |-> 1, a |-> a.v, e |-> e, z |-> z,
     rResponse |-> rResponse, type |-> "sum-equals-one", absent |-> {}]

\* Someone who holds the public key and the ciphertexts submits a sum proof.
ForgeSumProof ==
    /\ submitted.kind = "none"
    /\ last.op # "generateVoteProof"
    /\ publicKey # Null
    /\ Len(encs) >= 1
    /\ \E e \in Ends(1, publicKey.n - 1), z, r \in {1, publicKey.n - 1} :
           submitted' = [kind |-> "sum", origin |-> "forged",
                         obj |-> ForgedSum(PublishedSum, e, z, r,
                                     SimulatedCommitment(e, z, r, PublishedSum, publicKey))]
    /\ UNCHANGED <<page, entropy, publicKey, privateKey, keygens, encs, last, report>>

\* A bit proof by an encryptor who knows the plaintext m and the randomness of
\* the ciphertext: both branches are answered as the real branch is, from the
\* commitments g^s * r'^n, with the shares e0 and totalChallenge - e0.
ForgedBit(enc, s0, s1, rPrime, e0, pubKey, totalChallenge) ==
    [proof0 |-> [RealBranch(enc.plaintext, enc.randomness, s0, rPrime,
                            Commitment(s0, rPrime, pubKey), e0, pubKey.n)
                    EXCEPT !.plaintext = 0],
     proof1 |-> [RealBranch(enc.plaintext, enc.randomness, s1, rPrime,
                            Commitment(s1, rPrime, pubKey),
                            ChallengeShare(totalChallenge, e0, pubKey.n), pubKey.n)
                    EXCEPT !.plaintext = 1],
     ciphertext |-> enc.ciphertext, type |-> "bit-value", absent |-> {}]

\* The encryptor of a slot whose plaintext is not a bit submits a bit proof.
ForgeBitProof ==
    /\ submitted.kind = "none"
    /\ last.op # "generateVoteProof"
    /\ publicKey # Null
    /\ \E i \in 1..Len(encs), e0 \in Ends(1, publicKey.n - 1),
          s0, s1, rPrime \in {1, publicKey.n - 1} :
           /\ encs[i].plaintext \notin {0, 1}
           /\ submitted' = [kind |-> "bit", origin |-> "forged", slot |-> i,
                            obj |-> ForgedBit(encs[i], s0, s1, rPrime, e0, publicKey,
                                        generateChallenge(encs[i].ciphertext,
                                            Commitment(s0, rPrime, publicKey),
                                            Commitment(s1, rPrime, publicKey), publicKey))]
    /\ UNCHANGED <<page, entropy, publicKey, privateKey, keygens, encs, last, report>>

\* zkp.verifyVoteProof(submitted).
VerifyVoteProof ==
    /\ submitted.kind = "vote"
    /\ report.op = "none"
    /\ report' = [op |-> "verifyVoteProof",
                  result |-> verifyVoteProof(submitted.obj, publicKey)]
    /\ UNCHANGED <<page, entropy, publicKey, privateKey, keygens, encs, last, submitted>>

\* zkp.verifySumProof(submitted).
VerifySumProof ==
    /\ submitted.kind = "sum"
    /\ report.op = "none"
    /\ report' = [op |-> "verifySumProof",
                  result |-> verifySumProof(submitted.obj, publicKey)]
    /\ UNCHANGED <<page, entropy, publicKey, privateKey, keygens, encs, last, submitted>>

\* zkp.verifyBitProof(submitted).
VerifyBitProof ==
    /\ submitted.kind = "bit"
    /\ report.op = "none"
    /\ report' = [op |-> "verifyBitProof",
                  result |-> verifyBitProof(submitted.obj, publicKey)]
    /\ UNCHANGED <<page, entropy, publicKey, privateKey, keygens, encs, last, submitted>>

NextProof ==
    \/ GenerateKeys
    \/ EncryptVote
    \/ GenerateVoteProof
    \/ Flip
    \/ Shift
    \/ Strip
    \/ ForgeSumProof
    \/ ForgeBitProof
    \/ VerifyVoteProof
    \/ VerifySumProof
    \/ VerifyBitProof

SpecProof == Init /\ [][NextProof]_vars

\* ---------------------------------------------------------- actions: the page

\* encryptedVotes, the page's array of ciphertexts; encs keeps beside each
\* ciphertext what the callback that made it knew (plaintext, randomness, key).
encryptedVotes == [i \in 1..Len(encs) |-> encs[i].ciphertext]

\* updateUIState(): the buttons it disables.
updateUIState(keys, hasEncryptedVotes, hasProofs) ==
    (IF ~keys THEN {"clearKeys", "encryptVotes", "clearVotes"} ELSE {})
    \cup (IF ~hasEncryptedVotes THEN {"verifyZKPs", "debugZKP", "computeTally"} ELSE {})
    \cup (IF ~hasEncryptedVotes \/ ~hasProofs THEN {"sendVote"} ELSE {})

NoVotes == [i \in 1..NumSlots |-> FALSE]

\* setTimeout(callback, 100): every delay is the same, so callbacks fire in
\* the order they were posted.
setTimeout(callback) == timers' = Append(timers, callback)
Fires(callback) == timers # <<>> /\ Head(timers) = callback /\ timers' = Tail(timers)

\* generateKeys(): posts the callback. The button is never disabled.
ClickGenerateKeys ==
    /\ runs < MaxRuns
    /\ Len(timers) < MaxPending
    /\ runs' = runs + 1
    /\ setTimeout("generateKeys")
    /\ UNCHANGED <<entropy, publicKey, privateKey, keygens, encs, last, submitted, report,
                   currentVotes, voteProofs, isKeysGenerated, disabled>>

\* The callback of generateKeys(): paillierSystem.generateKeys(), then the
\* flag and the buttons; a throw is caught and logged.
PageKeysGenerated(k) ==
    /\ KeysGenerated(k)
    /\ isKeysGenerated' = IF k.threw THEN isKeysGenerated ELSE TRUE
    /\ disabled' = IF k.threw THEN disabled
                   ELSE updateUIState(TRUE, Len(encs) > 0, Len(voteProofs) > 0)

RunGenerateKeys ==
    /\ Fires("generateKeys")
    /\ PageKeysGenerated(generateKeys(entropy))
    /\ UNCHANGED <<encs, submitted, report, currentVotes, voteProofs, runs>>

\* clearKeys(): paillierSystem.clearKeys() and the page's reset.
ClearKeys ==
    /\ "clearKeys" \notin disabled
    /\ publicKey' = Null
    /\ privateKey' = Null
    /\ isKeysGenerated' = FALSE
    /\ encs' = <<>>
    /\ voteProofs' = <<>>
    /\ currentVotes' = NoVotes
    /\ disabled' = updateUIState(FALSE, FALSE, FALSE)
    /\ last' = [op |-> "clearKeys"]
    /\ UNCHANGED <<entropy, keygens, submitted, report, timers, runs>>

\* toggleVote(i): nothing without keys, else the selection of i is flipped.
ToggleVote ==
    \E i \in 1..NumSlots :
        /\ isKeysGenerated
        /\ currentVotes' = [currentVotes EXCEPT ![i] = ~currentVotes[i]]
        /\ disabled' = updateUIState(isKeysGenerated, Len(encs) > 0, Len(voteProofs) > 0)
        /\ UNCHANGED <<entropy, publicKey, privateKey, keygens, encs, last, submitted,
                       report, voteProofs, isKeysGenerated, timers, runs>>

\* clearVotes(): the selection, the ciphertexts and the proofs are dropped.
ClearVotes ==
    /\ "clearVotes" \notin disabled
    /\ currentVotes' = NoVotes
    /\ encs' = <<>>
    /\ voteProofs' = <<>>
    /\ disabled' = updateUIState(isKeysGenerated, FALSE, FALSE)
    /\ UNCHANGED <<entropy, publicKey, privateKey, keygens, last, submitted, report,
                   isKeysGenerated, timers, runs>>

\* clearVotes() and then the selection of the candidates in `selected`.
Selected(selected) ==
    /\ isKeysGenerated
    /\ currentVotes' = [i \in 1..NumSlots |-> i \in selected]
    /\ encs' = <<>>
    /\ voteProofs' = <<>>
    /\ disabled' = updateUIState(isKeysGenerated, FALSE, FALSE)
    /\ UNCHANGED <<entropy, publicKey, privateKey, keygens, last, submitted, report,
                   isKeysGenerated, timers, runs>>

\* selectRandomCandidates(count): clearVotes(), then toggleVote on
\* min(count, CANDIDATE_COUNT) distinct candidates drawn by Math.random.
SelectRandomCandidates ==
    \E count \in 0..(NumSlots + 1) :
        \E selected \in SUBSET (1..NumSlots) :
            /\ Cardinality(selected) = IF count < NumSlots THEN count ELSE NumSlots
            /\ Selected(selected)

\* selectAllCandidates(), confirmed: clearVotes(), then every candidate.
SelectAllCandidates == Selected(1..NumSlots)

\* The plaintext of a selection: vote ? 1n : 0n.
Bit(vote) == IF vote THEN 1 ELSE 0
plaintextVotes == [i \in 1..NumSlots |-> Bit(currentVotes[i])]

\* The loop of the callback of encryptVotes(): encrypt each slot and push the
\* ciphertext and the randomness; a throw leaves what was pushed so far.
RECURSIVE EncryptVotesLoop(_, _)
EncryptVotesPush(i, acc, e) ==
    IF e.err # "" THEN [err |-> e.err, s |-> e.s, encs |-> acc.encs]
    ELSE EncryptVotesLoop(i + 1,
             [err |-> "", s |-> e.s,
              encs |-> Append(acc.encs, [plaintext |-> plaintextVotes[i],
                                         ciphertext |-> e.ciphertext,
                                         randomness |-> e.randomness,
                                         key |-> keygens])])
EncryptVotesLoop(i, acc) ==
    IF i > NumSlots THEN acc
    ELSE EncryptVotesPush(i, acc, encrypt(plaintextVotes[i], publicKey, acc.s))

\* What the callback of encryptVotes() did: the error shown, and the stored
\* ciphertexts, proofs and keys as it found them and as it left them.
EncryptVotesReturned(err) ==
    [op |-> "encryptVotes", err |-> err, plaintextVotes |-> plaintextVotes,
     before |-> [encs |-> encs, voteProofs |-> voteProofs,
                 publicKey |-> publicKey, privateKey |-> privateKey, entropy |-> entropy],
     after |-> [encs |-> encs', voteProofs |-> voteProofs',
                publicKey |-> publicKey', privateKey |-> privateKey', entropy |-> entropy']]

EmptySelectionCleared ==
    /\ encs' = <<>>
    /\ UNCHANGED <<entropy, voteProofs, disabled>>

\* No candidate selected: the callback shows the error and returns.
EmptySelectionRejected == UNCHANGED <<entropy, encs, voteProofs, disabled>>

\* The proof is stored and the buttons updated, unless generateVoteProof threw.
VotesProved(b, r) ==
    /\ entropy' = r.s
    /\ encs' = b.encs
    /\ voteProofs' = IF r.err = "" THEN <<r.proof>> ELSE voteProofs
    /\ disabled' = IF r.err = "" THEN updateUIState(isKeysGenerated, TRUE, TRUE) ELSE disabled
    /\ last' = EncryptVotesReturned(r.err)

\* After the loop: its throw is caught, or generateVoteProof is called on the
\* ciphertexts, the plaintexts and the randomnesses.
VotesEncrypted(b) ==
    IF b.err # ""
    THEN /\ entropy' = b.s
         /\ encs' = b.encs
         /\ last' = EncryptVotesReturned(b.err)
         /\ UNCHANGED <<voteProofs, disabled>>
    ELSE VotesProved(b, generateVoteProof([i \in 1..Len(b.encs) |-> b.encs[i].ciphertext],
                                          plaintextVotes,
                                          [i \in 1..Len(b.encs) |-> b.encs[i].randomness],
                                          publicKey, b.s))

\* encryptVotes(): nothing without keys, else the callback is posted.
ClickEncryptVotes ==
    /\ "encryptVotes" \notin disabled
    /\ isKeysGenerated
    /\ runs < MaxRuns
    /\ Len(timers) < MaxPending
    /\ runs' = runs + 1
    /\ setTimeout("encryptVotes")
    /\ UNCHANGED <<entropy, publicKey, privateKey, keygens, encs, last, submitted, report,
                   currentVotes, voteProofs, isKeysGenerated, disabled>>

\* The callback of encryptVotes().
RunEncryptVotes ==
    /\ Fires("encryptVotes")
    /\ UNCHANGED <<publicKey, privateKey, keygens, submitted, report,
                   currentVotes, isKeysGenerated, runs>>
    /\ IF plaintextVotes = [i \in 1..NumSlots |-> 0]
       THEN /\ EmptySelectionRejected
            /\ last' = EncryptVotesReturned("Please select at least one candidate to test the system.")
       ELSE VotesEncrypted(EncryptVotesLoop(1, [err |-> "", s |-> entropy, encs |-> <<>>]))

\* The handlers of the keys, the selection and the encryption; the history
\* of the pending callbacks is not kept.
NextBallot ==
    \/ ClickGenerateKeys /\ UNCHANGED overtaken
    \/ RunGenerateKeys /\ UNCHANGED overtaken
    \/ ClearKeys /\ UNCHANGED overtaken
    \/ ToggleVote /\ UNCHANGED overtaken
    \/ ClearVotes /\ UNCHANGED overtaken
    \/ SelectRandomCandidates /\ UNCHANGED overtaken
    \/ SelectAllCandidates /\ UNCHANGED overtaken
    \/ ClickEncryptVotes /\ UNCHANGED overtaken
    \/ RunEncryptVotes /\ UNCHANGED overtaken

SpecBallot == Init /\ [][NextBallot]_vars

\* The same handlers without selectRandomCandidates and selectAllCandidates,
\* whose effect is that of clearVotes() followed by toggleVote calls.
NextSelection ==
    \/ ClickGenerateKeys /\ UNCHANGED overtaken
    \/ RunGenerateKeys /\ UNCHANGED overtaken
    \/ ClearKeys /\ UNCHANGED overtaken
    \/ ToggleVote /\ UNCHANGED overtaken
    \/ ClearVotes /\ UNCHANGED overtaken
    \/ ClickEncryptVotes /\ UNCHANGED overtaken
    \/ RunEncryptVotes /\ UNCHANGED overtaken

SpecSelection == Init /\ [][NextSelection]_vars

\* verifyAllZKPs(): nothing without proofs, else the callback is posted.
ClickVerifyAllZKPs ==
    /\ "verifyZKPs" \notin disabled
    /\ voteProofs # <<>>
    /\ Len(timers) < MaxPending
    /\ setTimeout("verifyAllZKPs")
    /\ UNCHANGED <<entropy, publicKey, privateKey, keygens, encs, last, submitted, report,
                   currentVotes, voteProofs, isKeysGenerated, disabled, runs>>

\* The ciphertexts a vote proof is about.
ProvedCiphertexts(voteProof) ==
    [i \in 1..Len(voteProof.bitProofs) |-> voteProof.bitProofs[i].ciphertext]

\* The ballots whose proof verifyVoteProof has found valid so far.
Passed == IF report.op = "verifyAllZKPs" THEN report.passed ELSE {}

\* The callback of verifyAllZKPs() once verifyVoteProof(voteProofs[0]) returned
\* or threw: the results are shown and the buttons updated unless it threw.
ZKPsVerified(results) ==
    /\ report' = [op |-> "verifyAllZKPs", result |-> results,
                  passed |-> IF ~results.threw /\ results.overallValid
                             THEN Passed \cup {ProvedCiphertexts(voteProofs[1])}
                             ELSE Passed]
    /\ disabled' = IF results.threw THEN disabled
                   ELSE updateUIState(isKeysGenerated, Len(encs) > 0, TRUE)

\* The callback of verifyAllZKPs(); voteProofs[0] is undefined when the proofs
\* were dropped since the click, and verifyVoteProof(undefined) throws.
RunVerifyAllZKPs ==
    /\ Fires("verifyAllZKPs")
    /\ IF voteProofs = <<>>
       THEN /\ report' = [op |-> "verifyAllZKPs", result |-> Threw, passed |-> Passed]
            /\ UNCHANGED disabled
       ELSE ZKPsVerified(verifyVoteProof(voteProofs[1], publicKey))
    /\ UNCHANGED <<entropy, publicKey, privateKey, keygens, encs, last, submitted,
                   currentVotes, voteProofs, isKeysGenerated, runs>>

\* Number(bigint): exact below 2^53, which every value of the model is.
Number(x) == x

\* The loop of the tally: decrypt each slot and push Number(decryptedVote).
RECURSIVE TallySlots(_, _, _, _)
TallySlotPush(ciphertexts, privKey, i, results, d) ==
    IF d.err # "" THEN [err |-> d.err, results |-> results]
    ELSE TallySlots(ciphertexts, privKey, i + 1, Append(results, Number(d.plaintext)))
TallySlots(ciphertexts, privKey, i, results) ==
    IF i > Len(ciphertexts) THEN [err |-> "", results |-> results]
    ELSE TallySlotPush(ciphertexts, privKey, i, results, decrypt(ciphertexts[i], privKey))

\* displayTallyResults(results, Number(decryptedSum)).
TallyDecrypted(slots, decryptedSum) ==
    IF decryptedSum.err # "" THEN [err |-> decryptedSum.err, results |-> slots.results]
    ELSE [err |-> "", results |-> slots.results, totalVotes |-> Number(decryptedSum.plaintext)]

TallySummed(slots, encryptedSum, privKey) ==
    IF encryptedSum.err # "" THEN [err |-> encryptedSum.err, results |-> slots.results]
    ELSE TallyDecrypted(slots, decrypt(encryptedSum.c, privKey))

TallySlotsDone(ciphertexts, privKey, pubKey, slots) ==
    IF slots.err # "" THEN slots
    ELSE TallySummed(slots, sumCiphertexts(ciphertexts, pubKey), privKey)

\* The body of the callback of computeHomomorphicTally(): the per-slot
\* results and the total it displays, or the error it caught.
Tally(ciphertexts, privKey, pubKey) ==
    TallySlotsDone(ciphertexts, privKey, pubKey, TallySlots(ciphertexts, privKey, 1, <<>>))

\* computeHomomorphicTally(): nothing without ciphertexts or keys, else the
\* callback is posted.
ClickComputeHomomorphicTally ==
    /\ "computeTally" \notin disabled
    /\ Len(encs) # 0
    /\ isKeysGenerated
    /\ Len(timers) < MaxPending
    /\ setTimeout("computeHomomorphicTally")
    /\ UNCHANGED <<entropy, publicKey, privateKey, keygens, encs, last, submitted, report,
                   currentVotes, voteProofs, isKeysGenerated, disabled, runs>>

\* What the callback of the tally did, and on which ballot.
TallyDone(tally) ==
    /\ last' = [op |-> "computeHomomorphicTally", tally |-> tally, ballot |-> encs,
                key |-> keygens]
    /\ disabled' = IF tally.err # "" THEN disabled
                   ELSE updateUIState(isKeysGenerated, Len(encs) > 0, Len(voteProofs) > 0)

\* The callback of computeHomomorphicTally().
RunComputeHomomorphicTally ==
    /\ Fires("computeHomomorphicTally")
    /\ TallyDone(Tally(encryptedVotes, privateKey, publicKey))
    /\ UNCHANGED <<entropy, publicKey, privateKey, keygens, encs, submitted, report,
                   currentVotes, voteProofs, isKeysGenerated, runs>>

\* { a, e, z, rResponse } of one branch, each by toString().
BranchPayload(branch) ==
    [a |-> toString(branch.a), e |-> toString(branch.e), z |-> toString(branch.z),
     rResponse |-> toString(branch.rResponse)]

\* The votePayload of sendVoteToBackend (the values of timestamp, voterId and
\* sessionId come from the clock and Math.random and are left out).
votePayload ==
    [timestamp |-> "", voterId |-> "", sessionId |-> "",
     publicKey |-> [n |-> toString(publicKey.n), g |-> toString(publicKey.g),
                    nSquared |-> toString(publicKey.nSquared)],
     encryptedVotes |-> [index \in 1..Len(encs) |->
                            [candidateId |-> index - 1,
                             ciphertext |-> toString(encryptedVotes[index])]],
     zkpProofs |->
        [bitProofs |-> [index \in 1..Len(voteProofs[1].bitProofs) |->
                           [candidateId |-> index - 1,
                            proof0 |-> BranchPayload(voteProofs[1].bitProofs[index].proof0),
                            proof1 |-> BranchPayload(voteProofs[1].bitProofs[index].proof1),
                            ciphertext |-> toString(voteProofs[1].bitProofs[index].ciphertext)]],
         sumProof |-> [encryptedSum |-> toString(voteProofs[1].sumProof.encryptedSum),
                       expectedSum |-> toString(voteProofs[1].sumProof.expectedSum),
                       a |-> toString(voteProofs[1].sumProof.a),
                       e |-> toString(voteProofs[1].sumProof.e),
                       z |-> toString(voteProofs[1].sumProof.z),
                       rResponse |-> toString(voteProofs[1].sumProof.rResponse)]],
     debugInfo |-> [selectedCandidates |-> {index - 1 : index \in {i \in 1..NumSlots : currentVotes[i]}},
                    voteVector |-> [i \in 1..NumSlots |-> Bit(currentVotes[i])]]]

\* sendVoteToBackend(): nothing without ciphertexts and proofs, else the
\* payload is posted; a missing public key throws before anything is sent.
SendVoteToBackend ==
    /\ "sendVote" \notin disabled
    /\ Len(encs) # 0
    /\ voteProofs # <<>>
    /\ last' = IF publicKey = Null THEN [op |-> "sendVoteToBackend", err |-> TypeError]
               ELSE [op |-> "sendVoteToBackend", err |-> "", payload |-> votePayload,
                     ballot |-> encs]
    /\ UNCHANGED <<entropy, publicKey, privateKey, keygens, encs, submitted, report, page>>

\* The history of the pending callbacks: a callback is posted, the first one
\* fires, or clearKeys() or clearVotes() ran while they were pending.
Posts == overtaken' = Append(overtaken, FALSE)
Fired == overtaken' = Tail(overtaken)
Overtakes == overtaken' = [i \in 1..Len(timers) |-> TRUE]

\* The page with every handler, and the history of its pending callbacks.
NextPage ==
    \/ ClickGenerateKeys /\ Posts
    \/ RunGenerateKeys /\ Fired
    \/ ClearKeys /\ Overtakes
    \/ ToggleVote /\ UNCHANGED overtaken
    \/ ClearVotes /\ Overtakes
    \/ SelectRandomCandidates /\ Overtakes
    \/ SelectAllCandidates /\ Overtakes
    \/ ClickEncryptVotes /\ Posts
    \/ RunEncryptVotes /\ Fired
    \/ ClickVerifyAllZKPs /\ Posts
    \/ RunVerifyAllZKPs /\ Fired
    \/ ClickComputeHomomorphicTally /\ Posts
    \/ RunComputeHomomorphicTally /\ Fired
    \/ SendVoteToBackend

SpecPage == Init /\ [][NextPage]_vars

\* -------------------------------------------------------- actions: the tally

\* The body of the tally's callback on the caller's ciphertexts, whatever
\* plaintexts they hold.
TallyCiphertexts ==
    /\ Len(encs) >= 1
    /\ last.op # "computeHomomorphicTally"
    /\ last' = [op |-> "computeHomomorphicTally",
                tally |-> Tally(Ciphertexts, privateKey, publicKey),
                ballot |-> encs, key |-> keygens]
    /\ UNCHANGED <<page, entropy, publicKey, privateKey, keygens, encs, submitted, report>>

NextTally ==
    \/ GenerateKeys
    \/ EncryptFirst
    \/ EncryptSecond
    \/ TallyCiphertexts

SpecTally == Init /\ [][NextTally]_vars

\* ---------------------------------------------- actions: decrypt on any number

\* Ciphertexts handed to decrypt: both ends of (0, nSquared), and the numbers
\* next to them outside it.
GivenCiphertexts ==
    IF publicKey = Null THEN (-1)..1
    ELSE Ends(-1, 1) \cup Ends(publicKey.nSquared - 1, publicKey.nSquared + 1)

\* paillier.decrypt(c) on a number the caller chose.
DecryptGiven ==
    \E c \in GivenCiphertexts :
        /\ last' = [op |-> "decrypt", of |-> "given", ciphertext |-> c,
                    keyed |-> privateKey # Null,
                    nSquared |-> IF publicKey = Null THEN 0 ELSE publicKey.nSquared,
                    err |-> decrypt(c, privateKey).err,
                    plaintext |-> IF decrypt(c, privateKey).err = ""
                                  THEN decrypt(c, privateKey).plaintext ELSE 0]
        /\ UNCHANGED <<page, entropy, publicKey, privateKey, keygens, encs, submitted, report>>

NextDecrypt ==
    \/ GenerateKeys
    \/ DecryptGiven

SpecDecrypt == Init /\ [][NextDecrypt]_vars

\* ------------------------------------------------------- actions: encrypt alone

NextEncrypt ==
    \/ GenerateKeys
    \/ EncryptFirst
    \/ EncryptSecond

SpecEncrypt == Init /\ [][NextEncrypt]_vars

\* ------------------------------------------------- actions: the modulus alone

\* The widths keySize / 2 the primes are drawn with.
PrimeBits == HalfKeyBits..(HalfKeyBits + MaxWider)

\* The first lines of generateKeys() with this.keySize = 2 * bits:
\* [p, q] = generateTwoPrimes(keySize / 2) and n = p * q.
ModulusDrawn(bits, pq) ==
    /\ entropy' = pq.s
    /\ keygens' = keygens + 1
    /\ last' = [op |-> "generateTwoPrimes", bits |-> bits, p |-> pq.p, q |-> pq.q,
                n |-> pq.p * pq.q]

DrawModulus ==
    \E bits \in PrimeBits :
        /\ keygens < MaxDraws
        /\ ModulusDrawn(bits, generateTwoPrimes(bits, entropy))
        /\ UNCHANGED <<page, publicKey, privateKey, encs, submitted, report>>

SpecModulus == Init /\ [][DrawModulus]_vars

\* ------------------------------------------------ actions: the life of the keys

\* paillier.generateKeys(), whether or not a key pair is loaded.
GenerateKeysAnew ==
    /\ keygens < MaxDraws
    /\ KeysGenerated(generateKeys(entropy))
    /\ UNCHANGED <<page, encs, submitted, report>>

PaillierClearPublicKey ==
    /\ publicKey' = Null
    /\ last' = [op |-> "clearKeys"]
    /\ UNCHANGED <<page, entropy, privateKey, keygens, encs, submitted, report>>

\* paillier.clearKeys().
PaillierClearKeys ==
    /\ publicKey' = Null
    /\ privateKey' = Null
    /\ last' = [op |-> "clearKeys"]
    /\ UNCHANGED <<page, entropy, keygens, encs, submitted, report>>

\* paillier.encrypt(m), once for each key pair generated; with no key loaded
\* it throws and the caller holds what it held.
EncryptAnother ==
    \E m \in 0..MaxSample :
        /\ Len(encs) < keygens \/ publicKey = Null
        /\ Encrypt(m)

\* paillier.sumCiphertexts of the caller's ciphertexts.
SumCiphertexts ==
    /\ Len(encs) >= 1
    /\ last' = [op |-> "sumCiphertexts", i |-> 0, j |-> 0, scalar |-> 0,
                err    |-> sumCiphertexts(Ciphertexts, publicKey).err,
                result |-> Returned(sumCiphertexts(Ciphertexts, publicKey))]
    /\ UNCHANGED <<page, entropy, publicKey, privateKey, keygens, encs, submitted, report>>

NextLifecycle ==
    \/ GenerateKeysAnew
    \/ PaillierClearKeys
    \/ EncryptAnother
    \/ AddCiphertexts
    \/ ScalarMultiply
    \/ SumCiphertexts
    \/ DecryptSlot

SpecLifecycle == Init /\ [][NextLifecycle]_vars

\* The encryption in slot i was made under the key pair now loaded.
UnderCurrentKey(i) == i \in 1..Len(encs) /\ encs[i].key = keygens

\* C1: decrypting the ciphertext of encrypt(m), 0 <= m < n, under the key pair
\* that encrypted it returns exactly m, whatever randomness encrypt drew.
C1_RoundTrip ==
    (last.op = "decrypt" /\ last.of = "encrypt" /\ UnderCurrentKey(last.i))
        => (last.err = "" /\ last.plaintext = encs[last.i].plaintext)

C1_Witness ==
    /\ last.op = "decrypt" /\ last.of = "encrypt" /\ UnderCurrentKey(last.i)
    /\ encs[last.i].plaintext = publicKey.n - 1
    /\ encs[last.i].randomness > 1
    /\ last.plaintext = publicKey.n - 1

\* C2: the product of two ciphertexts decrypts to the sum of their plaintexts
\* modulo n.
C2_AdditiveHomomorphism ==
    (last.op = "decrypt" /\ last.of = "addCiphertexts"
        /\ UnderCurrentKey(last.i) /\ UnderCurrentKey(last.j))
        => (last.err = ""
            /\ last.plaintext
                 = (encs[last.i].plaintext + encs[last.j].plaintext) % publicKey.n)

C2_Witness ==
    /\ last.op = "decrypt" /\ last.of = "addCiphertexts"
    /\ UnderCurrentKey(last.i) /\ UnderCurrentKey(last.j)
    /\ last.i # last.j
    /\ encs[last.i].plaintext + encs[last.j].plaintext > publicKey.n
    /\ last.plaintext = encs[last.i].plaintext + encs[last.j].plaintext - publicKey.n

\* C3: a ciphertext raised to a nonnegative scalar k (0 and k >= n included)
\* decrypts to k times its plaintext modulo n.
C3_ScalarHomomorphism ==
    (last.op = "decrypt" /\ last.of = "scalarMultiply" /\ UnderCurrentKey(last.i))
        => (last.err = ""
            /\ last.plaintext = (last.scalar * encs[last.i].plaintext) % publicKey.n)

C3_Witness ==
    /\ last.op = "decrypt" /\ last.of = "scalarMultiply" /\ UnderCurrentKey(last.i)
    /\ last.scalar > publicKey.n
    /\ encs[last.i].plaintext = publicKey.n - 1
    /\ last.plaintext = publicKey.n - 1

\* ------------------------------------------- actions: arrays of any length

\* zkp.generateVoteProof on the first lc ciphertexts, lp plaintexts and lr
\* randomnesses of the ballot.
ArraysProofGenerated(r, lc, lp, lr) ==
    /\ entropy' = r.s
    /\ last' = [op |-> "generateVoteProof", err |-> r.err, made |-> r.made,
                lengths |-> <<lc, lp, lr>>, plaintexts |-> SubSeq(Plaintexts, 1, lp)]
    /\ submitted' = IF r.err = ""
                    THEN [kind |-> "vote", origin |-> "generateVoteProof", obj |-> r.proof]
                    ELSE submitted

GenerateVoteProofArrays ==
    /\ submitted.kind = "none"
    /\ last.op # "generateVoteProof"
    /\ publicKey # Null
    /\ \E lc, lp, lr \in 0..Len(encs) :
           ArraysProofGenerated(generateVoteProof(SubSeq(Ciphertexts, 1, lc),
                                                  SubSeq(Plaintexts, 1, lp),
                                                  SubSeq(Randomnesses, 1, lr),
                                                  publicKey, entropy), lc, lp, lr)
    /\ UNCHANGED <<page, publicKey, privateKey, keygens, encs, report>>

NextArrays ==
    \/ GenerateKeys
    \/ EncryptVote
    \/ GenerateVoteProofArrays

SpecArrays == Init /\ [][NextArrays]_vars

\* Every slot of the ballot was encrypted under the key pair now loaded.
BallotUnderCurrentKey == \A i \in 1..Len(encs) : UnderCurrentKey(i)

\* The plaintexts of the ballot are bits.
BallotOfBits == \A i \in 1..Len(encs) : encs[i].plaintext \in {0, 1}

\* C4: the proof generateVoteProof returns for a ballot of bits with exactly
\* one 1, its ciphertexts and their randomness, is accepted by verifyVoteProof
\* in full: every bit proof valid, the sum proof valid, overallValid true.
C4_Completeness ==
    (report.op = "verifyVoteProof" /\ submitted.origin = "generateVoteProof"
        /\ BallotUnderCurrentKey)
        => (/\ report.result.threw = FALSE
            /\ report.result.bitProofsValid
            /\ report.result.sumProofValid
            /\ report.result.overallValid)

C4_Witness ==
    /\ report.op = "verifyVoteProof" /\ submitted.origin = "generateVoteProof"
    /\ BallotUnderCurrentKey
    /\ Len(encs) = NumSlots /\ BallotOfBits /\ SumVotes(Plaintexts, 1) = 1
    /\ encs[NumSlots].plaintext = 1
    /\ submitted.obj.bitProofs[NumSlots].proof1.e # 0
    /\ Len(report.result.bitProofResults) = NumSlots
    /\ report.result.bitProofsValid /\ report.result.sumProofValid
    /\ report.result.overallValid

\* C5: a proof made by generateVoteProof in which one bit of one numeric
\* field was flipped is rejected by verifyVoteProof: overallValid is false.
C5_TamperRejected ==
    (report.op = "verifyVoteProof" /\ submitted.origin = "flipped")
        => (report.result.threw = FALSE /\ report.result.overallValid = FALSE)

\* C6: verifySumProof rejects every sum proof written from the public key and
\* the published sum alone when that sum does not decrypt to 1.
C6_ForgedSumRejected ==
    (report.op = "verifySumProof" /\ submitted.origin = "forged"
        /\ decrypt(submitted.obj.encryptedSum, privateKey).plaintext # 1)
        => report.result.valid = FALSE

\* C7: verifyBitProof rejects every bit proof for a ciphertext whose plaintext
\* is not a bit, even one written by its encryptor.
C7_NonBitRejected ==
    (report.op = "verifyBitProof" /\ submitted.origin = "forged"
        /\ encs[submitted.slot].plaintext \notin {0, 1})
        => report.result.valid = FALSE

\* C8: for a ballot of bits that do not sum to 1, generateVoteProof throws
\* 'Plaintext votes must sum to exactly 1' and hands back no proof, its bit
\* proofs having all been made by then.
C8_SumNotOne ==
    (last.op = "generateVoteProof" /\ BallotOfBits /\ SumVotes(Plaintexts, 1) # 1)
        => (/\ last.err = "Plaintext votes must sum to exactly 1"
            /\ last.made = Len(encs)
            /\ submitted.kind = "none")

C8_Witness ==
    /\ last.op = "generateVoteProof"
    /\ Len(encs) = NumSlots
    /\ \A i \in 1..Len(encs) : encs[i].plaintext = 1
    /\ last.err = "Plaintext votes must sum to exactly 1"
    /\ last.made = NumSlots
    /\ submitted.kind = "none"

\* C9: verifyVoteProof throws on no proof that lacks a property or a list
\* entry: it returns a report whose overallValid is false.
C9_NeverRaises ==
    (report.op = "verifyVoteProof" /\ submitted.origin = "stripped")
        => (report.result.threw = FALSE /\ report.result.overallValid = FALSE)

\* C10: a proof in which one field lies outside its range, by a multiple of
\* its modulus, is rejected by verifyVoteProof: overallValid is false.
C10_OutOfRangeRejected ==
    (report.op = "verifyVoteProof" /\ submitted.origin = "shifted")
        => (report.result.threw = FALSE /\ report.result.overallValid = FALSE)

\* C11: generateVoteProof throws 'Array lengths must match' whenever its three
\* arrays are not of one length, before any other error.
C11_LengthMismatch ==
    (last.op = "generateVoteProof"
        /\ ~(last.lengths[1] = last.lengths[2] /\ last.lengths[1] = last.lengths[3]))
        => last.err = "Array lengths must match"

\* C12: when the callback of encryptVotes runs with no candidate selected it
\* encrypts nothing and proves nothing (the entropy stream is where it was), and
\* encryptedVotes, voteProofs and the loaded keys are as they were before it.
C12_EmptySelectionUnchanged ==
    (last.op = "encryptVotes" /\ last.plaintextVotes = [i \in 1..NumSlots |-> 0])
        => last.after = last.before

C12_Witness ==
    /\ last.op = "encryptVotes"
    /\ last.plaintextVotes = [i \in 1..NumSlots |-> 0]
    /\ last.err # ""
    /\ Len(last.before.encs) = NumSlots
    /\ last.before.voteProofs # <<>>
    /\ last.before.publicKey # Null

\* The sum of a sequence of numbers.
RECURSIVE SumOf(_)
SumOf(xs) == IF xs = <<>> THEN 0 ELSE Head(xs) + SumOf(Tail(xs))

\* The tally ran on a list of ciphertexts, not empty, that were all encrypted
\* under the loaded key.
TalliedUnderCurrentKey ==
    /\ last.op = "computeHomomorphicTally"
    /\ Len(last.ballot) >= 1
    /\ \A i \in 1..Len(last.ballot) : last.ballot[i].key = last.key

\* C13: on ciphertexts encrypted under the loaded key the tally's total, the
\* decryption of sumCiphertexts, is the sum of its per-slot results modulo n;
\* for a ballot of k < n bits it is their exact sum, and the per-slot results
\* are the bits that were encrypted.
C13_TallyEqualsSum ==
    TalliedUnderCurrentKey =>
        /\ last.tally.err = ""
        /\ last.tally.totalVotes = SumOf(last.tally.results) % publicKey.n
        /\ ((\A i \in 1..Len(last.ballot) : last.ballot[i].plaintext \in {0, 1})
                /\ Len(last.ballot) < publicKey.n)
            => /\ last.tally.totalVotes = SumOf(last.tally.results)
               /\ last.tally.results = [i \in 1..Len(last.ballot) |-> last.ballot[i].plaintext]

C13_Witness ==
    /\ TalliedUnderCurrentKey
    /\ Len(last.ballot) = 2
    /\ last.ballot[1].plaintext + last.ballot[2].plaintext >= publicKey.n
    /\ last.tally.totalVotes
        = last.ballot[1].plaintext + last.ballot[2].plaintext - publicKey.n

\* C14: the payload sendVoteToBackend builds holds the metadata, the public
\* key, the ciphertexts and the proofs, and no field with the selection vector
\* or the selected candidates.
C14_PayloadHidesSelection ==
    (last.op = "sendVoteToBackend" /\ last.err = "")
        => DOMAIN last.payload \subseteq
               {"timestamp", "voterId", "sessionId", "publicKey", "encryptedVotes", "zkpProofs"}

\* C15: the tally runs to its end only on ciphertexts whose proof
\* verifyVoteProof has found valid before.
C15_VerifyBeforeTally ==
    (last.op = "computeHomomorphicTally" /\ last.tally.err = "")
        => [i \in 1..Len(last.ballot) |-> last.ballot[i].ciphertext] \in Passed

\* C16: decrypt of a number c <= 0 or c >= nSquared under a loaded private key
\* throws and returns no plaintext; decrypt without a private key throws
\* 'No private key available for decryption'.
C16_DecryptRejectsOutOfRange ==
    (last.op = "decrypt" /\ last.of = "given")
        => /\ ~last.keyed => last.err = "No private key available for decryption"
           /\ (last.keyed /\ (last.ciphertext <= 0 \/ last.ciphertext >= last.nSquared))
                => last.err # ""

\* b^e mod m from b^e = (b^(e div 2))^2 * b^(e mod 2).
RECURSIVE PowerMod(_, _, _)
SquareMod(x, m) == (x * x) % m
PowerMod(b, e, m) ==
    IF e = 0 THEN 1 % m
    ELSE (SquareMod(PowerMod(b, e \div 2, m), m) * (IF e % 2 = 1 THEN b % m ELSE 1)) % m

\* What encrypt returned for plaintext m: 1 <= r < n coprime to n, and
\* c = g^m * r^n mod nSquared with 0 < c < nSquared coprime to nSquared.
WellEncrypted(enc) ==
    /\ enc.plaintext >= 0 /\ enc.plaintext < publicKey.n
    /\ enc.randomness >= 1 /\ enc.randomness < publicKey.n
    /\ gcd(enc.randomness, publicKey.n) = 1
    /\ enc.ciphertext = (PowerMod(publicKey.g, enc.plaintext, publicKey.nSquared)
                         * PowerMod(enc.randomness, publicKey.n, publicKey.nSquared))
                            % publicKey.nSquared
    /\ enc.ciphertext > 0 /\ enc.ciphertext < publicKey.nSquared
    /\ gcd(enc.ciphertext, publicKey.nSquared) = 1
    /\ isValidCiphertext(enc.ciphertext, publicKey)

\* C17: encrypt(m) under a loaded key succeeds exactly for 0 <= m < n, throwing
\* 'Plaintext must be in range [0, n)' otherwise, and everything it returns is
\* well formed.
C17_EncryptWellFormed ==
    /\ \A i \in 1..Len(encs) : WellEncrypted(encs[i])
    /\ (last.op = "encrypt" /\ publicKey # Null)
        => last.err = IF last.plaintext < 0 \/ last.plaintext >= publicKey.n
                      THEN "Plaintext must be in range [0, n)" ELSE ""

C17_Witness ==
    /\ last.op = "encrypt" /\ last.err = ""
    /\ Len(encs) = 2
    /\ encs[1].plaintext = publicKey.n - 1
    /\ encs[1].randomness > 1
    /\ encs[2].randomness # encs[1].randomness

\* C18: the product n = p * q of the two primes generateTwoPrimes(keyBits / 2)
\* returns has bit length exactly keyBits.
C18_ModulusBitLength ==
    last.op = "generateTwoPrimes" => bitLength(last.n) = 2 * last.bits

\* The least common multiple, by search.
LeastCommonMultiple(a, b) ==
    CHOOSE m \in 1..(a * b) :
        /\ m % a = 0 /\ m % b = 0
        /\ \A k \in 1..(m - 1) : ~(k % a = 0 /\ k % b = 0)

\* C19: generateKeys() on two distinct primes of one width does not throw, and
\* stores g = n + 1, nSquared = n * n, lambda = lcm(p - 1, q - 1) and mu with
\* mu * L(g^lambda mod nSquared) = 1 modulo n.
C19_KeygenCompletes ==
    last.op = "generateKeys" =>
        /\ last.err = ""
        /\ publicKey.n = last.p * last.q
        /\ publicKey.g = publicKey.n + 1
        /\ publicKey.nSquared = publicKey.n * publicKey.n
        /\ privateKey.n = publicKey.n
        /\ privateKey.lambda = LeastCommonMultiple(last.p - 1, last.q - 1)
        /\ (privateKey.mu
             * L(PowerMod(publicKey.g, privateKey.lambda, publicKey.nSquared), publicKey.n))
                % publicKey.n = 1

C19_Witness ==
    /\ last.op = "generateKeys"
    /\ last.p > last.q
    /\ bitLength(last.p) = bitLength(last.q)
    /\ keygens = 2
    /\ privateKey.mu > 1

\* The errors of a call that needs a key that is not loaded.
MissingKeyErrors ==
    {"No public key available for encryption", "No public key available",
     "No private key available for decryption"}

RangeBounds == (-1)..Pow2(HalfKeyBits)

\* What randomRange(min, max) did: the value it returned, or that its
\* do-while never ends.
RangeSampled(min, max, d) ==
    /\ entropy' = d.s
    /\ last' = [op |-> "randomRange", min |-> min, max |-> max,
                hangs |-> d.hangs, err |-> "", v |-> d.v, drawn |-> d.s # entropy]

\* BigIntUtils.randomRange(min, max).
RandomRange ==
    \E min, max \in RangeBounds :
        /\ last.op = "none"
        /\ RangeSampled(min, max, randomRange(min, max, entropy))
        /\ UNCHANGED <<page, publicKey, privateKey, keygens, encs, submitted, report>>

SpecRange == Init /\ [][RandomRange]_vars

\* C21: randomRange(min, max) returns v with min <= v < max when max > min;
\* with max <= min it ends by throwing the bad-range error: it returns no
\* value and does not sample forever.
C21_RangeContract ==
    last.op = "randomRange" =>
        IF last.max > last.min
        THEN ~last.hangs /\ last.err = "" /\ last.min <= last.v /\ last.v < last.max
        ELSE ~last.hangs /\ last.err # ""

\* ------------------------------------------------ actions: modInverse on any pair

\* The arguments of modInverse: a >= 0 and m >= 1.
InverseOperands == 0..Pow2(HalfKeyBits + 2)

\* BigIntUtils.modInverse(a, m): the inverse, or the error thrown.
ModInverse ==
    \E a \in InverseOperands, m \in InverseOperands \ {0} :
        /\ last.op = "none"
        /\ last' = [op |-> "modInverse", a |-> a, m |-> m,
                    err |-> IF modInverse(a, m).threw
                            THEN "Modular inverse does not exist" ELSE "",
                    v |-> modInverse(a, m).v]
        /\ UNCHANGED <<page, entropy, publicKey, privateKey, keygens, encs, submitted, report>>

SpecInverse == Init /\ [][ModInverse]_vars

\* The greatest common divisor of a >= 0 and m >= 1, by search.
GreatestCommonDivisor(a, m) ==
    CHOOSE d \in 1..m :
        /\ a % d = 0 /\ m % d = 0
        /\ \A k \in (d + 1)..m : ~(a % k = 0 /\ m % k = 0)

\* C22: for a >= 0 and m >= 1, modInverse(a, m) returns x with 0 <= x < m and
\* a * x = 1 modulo m when gcd(a, m) = 1, and throws 'Modular inverse does not
\* exist' when gcd(a, m) # 1 (a = 0 with m > 1 included).
C22_ModInverse ==
    last.op = "modInverse" =>
        IF GreatestCommonDivisor(last.a, last.m) = 1
        THEN /\ last.err = ""
             /\ 0 <= last.v /\ last.v < last.m
             /\ (last.a * last.v) % last.m = 1 % last.m
        ELSE last.err = "Modular inverse does not exist"

C22_Witness ==
    /\ last.op = "modInverse"
    /\ last.err = ""
    /\ last.a > last.m
    /\ last.v > 1
    /\ last.v = last.m - 1

\* --------------------------------------------- actions: the primality test alone

\* The numbers tested: below 2, even, odd primes and odd composites.
PrimalityInputs == (-1)..(Pow2(HalfKeyBits + MaxWider) - 1)

\* The number of rounds asked for: few, and the default.
WitnessRounds == {1, 2, MillerRabinRounds}

\* What isProbablePrime(n, k) returned, and the state of the entropy stream it
\* started from.
PrimalityTested(n, k, t) ==
    /\ entropy' = t.s
    /\ last' = [op |-> "isProbablePrime", n |-> n, k |-> k, v |-> t.v, seed |-> entropy]

\* BigIntUtils.isProbablePrime(n, k).
IsProbablePrime ==
    \E n \in PrimalityInputs, k \in WitnessRounds :
        /\ last.op = "none"
        /\ PrimalityTested(n, k, isProbablePrime(n, k, entropy))
        /\ UNCHANGED <<page, publicKey, privateKey, keygens, encs, submitted, report>>

SpecPrimality == Init /\ [][IsProbablePrime]_vars

\* n is prime, by trial division.
IsPrime(n) == n >= 2 /\ \A d \in 2..(n - 1) : n % d # 0

\* The Miller-Rabin condition of a for odd n, n - 1 = d * 2^r with d odd:
\* a^d = 1 or a^(d * 2^j) = n - 1 for some j < r, modulo n.
MillerRabinCondition(a, n) ==
    \/ PowerMod(a, OddPart(n - 1), n) = 1
    \/ \E j \in 0..(TwoExponent(n - 1) - 1) :
           PowerMod(a, OddPart(n - 1) * Pow2(j), n) = n - 1

\* The first k values randomRange(2, n - 1) returns from the entropy stream s on.
RECURSIVE WitnessStream(_, _, _)
WitnessStreamNext(k, n, a) == <<a.v>> \o WitnessStream(k - 1, n, a.s)
WitnessStream(k, n, s) ==
    IF k = 0 THEN <<>> ELSE WitnessStreamNext(k, n, randomRange(2, n - 1, s))

\* Some witness isProbablePrime drew fails the Miller-Rabin condition: the
\* test draws from the stream until one fails or k have passed.
SomeWitnessFails(n, k, s) ==
    \E i \in 1..k : ~MillerRabinCondition(WitnessStream(k, n, s)[i], n)

\* C23: isProbablePrime(n, k) returns true for 2 and 3, false for n < 2 and
\* for even n > 2, true for every odd prime n >= 5 whatever witnesses it draws,
\* and false for an odd composite n when a witness it draws fails the
\* Miller-Rabin condition.
C23_PrimalityTest ==
    last.op = "isProbablePrime" =>
        /\ last.n \in {2, 3} => last.v
        /\ (last.n < 2 \/ (last.n > 2 /\ last.n % 2 = 0)) => ~last.v
        /\ (last.n >= 5 /\ IsPrime(last.n)) => last.v
        /\ (last.n >= 5 /\ last.n % 2 = 1 /\ ~IsPrime(last.n)
                /\ SomeWitnessFails(last.n, last.k, last.seed)) => ~last.v

C23_Witness ==
    /\ last.op = "isProbablePrime"
    /\ last.n >= 13 /\ IsPrime(last.n)
    /\ last.k = MillerRabinRounds
    /\ Cardinality({WitnessStream(last.k, last.n, last.seed)[i] : i \in 1..last.k}) >= 7
    /\ \E i \in 1..last.k :
           PowerMod(WitnessStream(last.k, last.n, last.seed)[i], OddPart(last.n - 1), last.n)
               \notin {1, last.n - 1}
    /\ last.v

\* C24: on the page, whenever encryptedVotes is not empty the proof
\* voteProofs[0] is stored and is the proof of exactly those ciphertexts: one
\* bit proof per ciphertext, bitProofs[i].ciphertext = encryptedVotes[i].
C24_BallotConsistent ==
    encs # <<>> =>
        /\ voteProofs # <<>>
        /\ ProvedCiphertexts(voteProofs[1]) = encryptedVotes

\* A ballot is proved, one bit of the proof is flipped or none, and the proof
\* is verified.
NextReport ==
    \/ GenerateKeys
    \/ EncryptVote
    \/ GenerateVoteProof
    \/ Flip
    \/ VerifyVoteProof

SpecReport == Init /\ [][NextReport]_vars

\* The proof handed to verifyVoteProof has every property a BallotProof has:
\* it is as generateVoteProof made it, or with one bit of one field flipped.
CompleteProofVerified ==
    /\ report.op = "verifyVoteProof"
    /\ submitted.origin \in {"generateVoteProof", "flipped"}

\* One bit of slot i's bit proof was flipped.
SlotFlipped(i) ==
    /\ submitted.origin = "flipped"
    /\ submitted.path.part = "bitProofs"
    /\ submitted.path.i = i

\* One bit of a field of a branch of slot i's bit proof was flipped.
BranchFlipped(i) == SlotFlipped(i) /\ submitted.path.sub \in {"proof0", "proof1"}

\* C25: verifyVoteProof verifies every bit proof and then the sum proof, not
\* stopping at a failure: bitProofResults has one entry per bit proof, in
\* order, with candidateIndex = i and the verdict of verifyBitProof on it;
\* bitProofsValid is the conjunction of the entries, sumProofValid the verdict
\* of verifySumProof and overallValid their conjunction; and when a bit of a
\* branch of slot i's proof was flipped, entry i is invalid and the others valid.
C25_ReportStructure ==
    CompleteProofVerified =>
        /\ ~report.result.threw
        /\ Len(report.result.bitProofResults) = Len(submitted.obj.bitProofs)
        /\ \A i \in 1..Len(submitted.obj.bitProofs) :
               /\ report.result.bitProofResults[i].candidateIndex = i - 1
               /\ report.result.bitProofResults[i].valid
                    = verifyBitProof(submitted.obj.bitProofs[i], publicKey).valid
               /\ BranchFlipped(i) => ~report.result.bitProofResults[i].valid
               /\ ~SlotFlipped(i) => report.result.bitProofResults[i].valid
        /\ report.result.bitProofsValid
             = \A i \in 1..Len(submitted.obj.bitProofs) : report.result.bitProofResults[i].valid
        /\ report.result.sumProofValid = verifySumProof(submitted.obj.sumProof, publicKey).valid
        /\ report.result.overallValid
             = (report.result.bitProofsValid /\ report.result.sumProofValid)

C25_Witness ==
    /\ CompleteProofVerified
    /\ Len(submitted.obj.bitProofs) = NumSlots
    /\ BranchFlipped(1)
    /\ submitted.path.sub = "proof1" /\ submitted.path.field = "z" /\ submitted.bit = 0
    /\ ~report.result.bitProofResults[1].valid
    /\ \A i \in 2..NumSlots : report.result.bitProofResults[i].valid
    /\ report.result.sumProofValid
    /\ ~report.result.bitProofsValid
    /\ ~report.result.overallValid

\* a lies in [0, nSquared) and e, z and rResponse in [0, n): a branch of a bit
\* proof, or a sum proof.
ResponsesInRange(proof) ==
    /\ 0 <= proof.a /\ proof.a < publicKey.nSquared
    /\ 0 <= proof.e /\ proof.e < publicKey.n
    /\ 0 <= proof.z /\ proof.z < publicKey.n
    /\ 0 <= proof.rResponse /\ proof.rResponse < publicKey.n

\* C26: in every proof generateVoteProof returns, each bit proof made by
\* proveBitValue and the sum proof made by generateSumProof have their
\* commitments in [0, nSquared) and their challenge shares and responses in
\* [0, n), the real branch's share included when the total challenge is
\* smaller than the simulated share.
C26_ProofRanges ==
    (submitted.kind = "vote" /\ submitted.origin = "generateVoteProof") =>
        /\ \A i \in 1..Len(submitted.obj.bitProofs) :
               /\ ResponsesInRange(submitted.obj.bitProofs[i].proof0)
               /\ ResponsesInRange(submitted.obj.bitProofs[i].proof1)
        /\ ResponsesInRange(submitted.obj.sumProof)

C26_Witness ==
    /\ submitted.kind = "vote" /\ submitted.origin = "generateVoteProof"
    /\ Len(submitted.obj.bitProofs) = NumSlots
    /\ \E i \in 1..NumSlots :
           /\ encs[i].plaintext = 1
           /\ submitted.obj.bitProofs[i].proof0.e + submitted.obj.bitProofs[i].proof1.e
                >= publicKey.n
           /\ submitted.obj.bitProofs[i].proof1.e > 0
    /\ \E i \in 1..NumSlots :
           /\ encs[i].plaintext = 0
           /\ submitted.obj.bitProofs[i].proof0.e + submitted.obj.bitProofs[i].proof1.e
                >= publicKey.n

\* --------------------------------------- actions: prime generation, step by step

\* generateTwoPrimes(bits) is called: generatePrime starts on p and draws.
StartTwoPrimes ==
    \E bits \in PrimeBits :
        /\ last.op = "none"
        /\ last' = [op |-> "generatePrime", pc |-> "p", at |-> "draw", bits |-> bits,
                    seed |-> entropy, candidate |-> 0, round |-> 0, p |-> 0, q |-> 0,
                    rejected |-> 0, repeats |-> 0, passed |-> {}]
        /\ UNCHANGED <<page, entropy, publicKey, privateKey, keygens, encs, submitted, report>>

\* Rounds are counted up to MaxDraws.
Counted(c) == IF c < MaxDraws THEN c + 1 ELSE c

\* isProbablePrime returned false: `while (!isProbablePrime(candidate))` draws
\* again.
CandidateRejected == [last EXCEPT !.at = "draw", !.rejected = Counted(@)]

\* isProbablePrime returned true: generatePrime returns the candidate, as p, or
\* as q, which `while (p === q)` sends back to generatePrime when it equals p.
CandidatePassed(candidate) ==
    IF last.pc = "p"
    THEN [last EXCEPT !.p = candidate, !.pc = "q", !.at = "draw",
                      !.passed = @ \cup {candidate}]
    ELSE IF candidate = last.p
    THEN [last EXCEPT !.at = "draw", !.repeats = Counted(@), !.passed = @ \cup {candidate}]
    ELSE [last EXCEPT !.q = candidate, !.pc = "returned", !.at = "returned",
                      !.passed = @ \cup {candidate}]

\* The first two lines of isProbablePrime on the candidate, and the start of
\* its rounds.
CandidateMade(candidate) ==
    IF candidate = 2 \/ candidate = 3 THEN CandidatePassed(candidate)
    ELSE IF candidate < 2 \/ candidate % 2 = 0 THEN CandidateRejected
    ELSE [last EXCEPT !.at = "test", !.candidate = candidate, !.round = 0]

\* The body of the do-while of generatePrime up to the call of
\* isProbablePrime: a candidate with its bottom and top bits set.
DrawCandidate ==
    /\ last.op = "generatePrime"
    /\ last.at = "draw"
    /\ \E d \in {randomBigInt(last.bits, entropy)} :
           /\ entropy' = d.s
           /\ last' = CandidateMade(SetTopBit(SetBottomBit(d.v), last.bits))
    /\ UNCHANGED <<page, publicKey, privateKey, keygens, encs, submitted, report>>

\* One round of isProbablePrime on witness a with x = a^d mod n.
WitnessTried(x, n) ==
    IF x = 1 \/ x = n - 1 THEN [last EXCEPT !.round = @ + 1]
    ELSE IF MillerRabinComposite(x, 0, TwoExponent(n - 1), n) THEN CandidateRejected
    ELSE [last EXCEPT !.round = @ + 1]

\* One sample of the do-while of randomRange(2n, n - 1n) in a round of
\* isProbablePrime: a sample not below the range is drawn again, else the
\* round is made on the witness; or `return true` once k rounds were made.
WitnessRound ==
    /\ last.op = "generatePrime"
    /\ last.at = "test"
    /\ IF last.round >= MillerRabinRounds
       THEN /\ last' = CandidatePassed(last.candidate)
            /\ UNCHANGED entropy
       ELSE \E a \in {randomBigInt(bitLength(last.candidate - 3), entropy)} :
                /\ entropy' = a.s
                /\ IF a.v >= last.candidate - 3
                   THEN last' = last
                   ELSE \E x \in {modPow(a.v + 2, OddPart(last.candidate - 1),
                                         last.candidate)} :
                            last' = WitnessTried(x, last.candidate)
    /\ UNCHANGED <<page, publicKey, privateKey, keygens, encs, submitted, report>>

NextPrimes ==
    \/ StartTwoPrimes
    \/ DrawCandidate
    \/ WitnessRound

\* The loops keep running: a step that can be made is made.
SpecPrimes == Init /\ [][NextPrimes]_vars /\ WF_vars(NextPrimes)

\* generateTwoPrimes returned [p, q]: distinct, odd, of exactly `bits` bits,
\* each a candidate that isProbablePrime passed.
TwoPrimesReturned ==
    /\ last.op = "generatePrime"
    /\ last.pc = "returned"
    /\ last.p # last.q
    /\ last.p % 2 = 1 /\ last.q % 2 = 1
    /\ bitLength(last.p) = last.bits /\ bitLength(last.q) = last.bits
    /\ last.p >= Pow2(last.bits - 1) /\ last.q >= Pow2(last.bits - 1)
    /\ {last.p, last.q} \subseteq last.passed

\* C27: for every width bits >= 3, generateTwoPrimes(bits) comes to its end,
\* and returns two distinct odd numbers of exactly `bits` bits that
\* isProbablePrime passed; no candidate that failed the test is returned.
C27_TwoPrimesTerminate == <>TwoPrimesReturned

C27_Witness ==
    /\ TwoPrimesReturned
    /\ last.rejected >= 2
    /\ last.repeats >= 1

\* C28: on the page every stored ciphertext, and the stored proof, was made
\* under the key pair now loaded, so that the tally decrypts no ciphertext
\* with the private key of another pair: a new key pair does not leave the
\* ballot of the old one in place.
C28_BallotMatchesKey ==
    /\ \A i \in 1..Len(encs) : encs[i].key = keygens
    /\ last.op = "computeHomomorphicTally"
        => \A i \in 1..Len(last.ballot) : last.ballot[i].key = last.key

\* ------------------------------------- actions: a proof assembled by the voter

\* { bitProofs, sumProof, type } put together by the caller.
Spliced(bits, sum, j) ==
    /\ entropy' = sum.s
    /\ submitted' = IF bits.err # "" \/ sum.err # "" THEN submitted
                    ELSE [kind |-> "vote", origin |-> "spliced", slot |-> j,
                          obj |-> [bitProofs |-> bits.bitProofs, sumProof |-> sum.proof,
                                   type |-> "complete-vote-proof", absent |-> {}]]

SplicedBits(bits, j) ==
    Spliced(bits, generateSumProof(1, encs[j].ciphertext, encs[j].randomness,
                                   publicKey, bits.s), j)

\* The voter, who knows the plaintexts and the randomness of the ballot, calls
\* proveBitValue on every slot and generateSumProof on the ciphertext of one
\* slot that holds 1, in place of the sum of the ballot.
SpliceProof ==
    /\ submitted.kind = "none"
    /\ publicKey # Null
    /\ Len(encs) >= 1
    /\ BallotOfBits
    /\ \E j \in 1..Len(encs) :
           /\ encs[j].plaintext = 1
           /\ SplicedBits(BitProofsLoop(Ciphertexts, Plaintexts, Randomnesses, publicKey, 1,
                                        [err |-> "", s |-> entropy, bitProofs |-> <<>>]), j)
    /\ UNCHANGED <<page, publicKey, privateKey, keygens, encs, last, report>>

NextSplice ==
    \/ GenerateKeys
    \/ EncryptVote
    \/ SpliceProof
    \/ VerifyVoteProof

SpecSplice == Init /\ [][NextSplice]_vars

\* C29: verifyVoteProof returns overallValid = true only for a proof whose
\* sumProof.encryptedSum is the product modulo nSquared of the ciphertexts of
\* its bit proofs.
C29_SumBoundToSlots ==
    (report.op = "verifyVoteProof" /\ ~report.result.threw /\ report.result.overallValid)
        => submitted.obj.sumProof.encryptedSum
             = sumCiphertexts(ProvedCiphertexts(submitted.obj), publicKey).c

\* The callback that fires in this step was posted by encryptVotes,
\* computeHomomorphicTally or verifyAllZKPs, and clearKeys or clearVotes ran
\* since.
OvertakenCallbackFires ==
    /\ timers # <<>>
    /\ timers' = Tail(timers)
    /\ Head(timers) \in {"encryptVotes", "computeHomomorphicTally", "verifyAllZKPs"}
    /\ Head(overtaken)

\* What the callback that just ran showed was an error, and no tally.
FailureShown(callback) ==
    IF callback = "encryptVotes" THEN last.op = "encryptVotes" /\ last.err # ""
    ELSE IF callback = "computeHomomorphicTally"
    THEN last.op = "computeHomomorphicTally" /\ last.tally.err # "" /\ last.tally.results = <<>>
    ELSE report.op = "verifyAllZKPs" /\ report.result.threw

\* C30: when clearKeys or clearVotes ran between encryptVotes,
\* computeHomomorphicTally or verifyAllZKPs and the firing of its callback, the
\* callback leaves encryptedVotes and voteProofs empty, shows no tally and
\* shows an error in the status message.
C30_ClearedRequestFails ==
    [][OvertakenCallbackFires
          => \E callback \in {Head(timers)} :
                 encs' = <<>> /\ voteProofs' = <<>> /\ FailureShown(callback)']_vars

====
